---- MODULE Spec2Model ----
(***************************************************************************)
(* Reservation engine of the smart-road intersection (src/src/intersection.rs, *)
(* src/src/vehicle.rs, src/src/route.rs).                                  *)
(*                                                                         *)
(* Lengths are pixels.  Every position, size and distance of the program   *)
(* is a whole number of pixels (spawn and turn positions are whole, a step *)
(* is 0, 3, 5 or 7 px), so the f32 values are modelled by integers.        *)
(* Times are kept in units of 1/6300 s: one frame (1/60 s) is 105 units    *)
(* and distance / px_per_frame / 60 seconds is distance * 105 /            *)
(* px_per_frame units, a whole number for 3, 5 and 7 px per frame.  The    *)
(* model computes with exact values where the program rounds to f32.       *)
(***************************************************************************)
EXTENDS Integers, Sequences, FiniteSets, TLC

VARIABLES
    active_vehicles,              \* Vec<Vehicle>, in push order
    grid,                         \* Vec<Cell>: cell index -> sequence of TimeSlot
    next_id,                      \* NEXT_ID of vehicle.rs
    current_time,                 \* the host loop's clock
    total_vehicles_passed,
    max_velocity_recorded,
    min_velocity_recorded,
    max_time_in_intersection,
    min_time_in_intersection,
    close_calls,
    close_call_pairs_this_frame,
    vehicle_intersection_times,   \* HashMap<id, entry time>, as a set of <<id, time>>
    tick_log,                     \* what the last update decided, one record per vehicle
    op                            \* the last grid primitive applied (grid specification)

vars == <<active_vehicles, grid, next_id, current_time, total_vehicles_passed,
          max_velocity_recorded, min_velocity_recorded, max_time_in_intersection,
          min_time_in_intersection, close_calls, close_call_pairs_this_frame,
          vehicle_intersection_times, tick_log, op>>

-----------------------------------------------------------------------------
(* Bounds of the model *)

\* vehicles spawned in one run
MaxVehicles == 2
\* spawn_vehicle is called only in the first MaxSpawnTick frames
MaxSpawnTick == 1
\* frames simulated
MaxTick == 80
\* grid specification: slots the grid holds
MaxGridSlots == 2

-----------------------------------------------------------------------------
(* Constants of the program *)

IX_MIN == 350
IY_MIN == 350
IX_MAX == 650
IY_MAX == 650
zone_px == 10
cols == 300 \div zone_px
rows == cols
VehicleWidth == 40
VehicleHeight == 70
SafetyDistance == 50
\* f32::MAX, the initial value of the recorded minima
F32_MAX == 1000000000
\* time units in one frame: 1/60 s = 105 / 6300 s
FrameTime == 105

Direction == {"North", "South", "East", "West"}
Route == {"Right", "Left", "Straight"}
Velocity == {"Stopped", "Slow", "Medium", "Fast"}

Min2(a, b) == IF a <= b THEN a ELSE b
Abs(a) == IF a < 0 THEN -a ELSE a

-----------------------------------------------------------------------------
(* route.rs *)

get_spawn_position(direction, route) ==
    CASE direction = "North" ->
           <<CASE route = "Right" -> 600 [] route = "Straight" -> 550 [] route = "Left" -> 500, 980>>
      [] direction = "South" ->
           <<CASE route = "Right" -> 350 [] route = "Straight" -> 400 [] route = "Left" -> 450, 0>>
      [] direction = "East" ->
           <<0, CASE route = "Right" -> 600 [] route = "Straight" -> 550 [] route = "Left" -> 500>>
      [] direction = "West" ->
           <<980, CASE route = "Right" -> 350 [] route = "Straight" -> 400 [] route = "Left" -> 450>>

get_turn_position(direction, route) ==
    IF route = "Straight" THEN <<0, 0>>
    ELSE IF route = "Right"
    THEN CASE direction = "North" -> <<600, 610>>
           [] direction = "South" -> <<350, 390>>
           [] direction = "East" -> <<400, 635>>
           [] direction = "West" -> <<600, 385>>
    ELSE CASE direction = "North" -> <<500, 470>>
           [] direction = "South" -> <<450, 540>>
           [] direction = "East" -> <<550, 535>>
           [] direction = "West" -> <<450, 485>>

-----------------------------------------------------------------------------
(* Path cache (intersection.rs) *)

\* for col in colLo..colHi { for row in rowLo..rowHi { if row < rows { push((col, row)) } } }
ColMajorCells(colLo, colHi, rowLo, rowHi) ==
    LET all == [k \in 1..((colHi - colLo + 1) * (rowHi - rowLo + 1)) |->
                   <<colLo + ((k - 1) \div (rowHi - rowLo + 1)),
                     rowLo + ((k - 1) % (rowHi - rowLo + 1))>>]
    IN  SelectSeq(all, LAMBDA c : c[2] < rows)

\* for row in rowLo..rowHi { for col in colLo..colHi { if col < cols { push((col, row)) } } }
RowMajorCells(rowLo, rowHi, colLo, colHi) ==
    LET all == [k \in 1..((rowHi - rowLo + 1) * (colHi - colLo + 1)) |->
                   <<colLo + ((k - 1) % (colHi - colLo + 1)),
                     rowLo + ((k - 1) \div (colHi - colLo + 1))>>]
    IN  SelectSeq(all, LAMBDA c : c[1] < cols)

calculate_straight_path_cells(direction) ==
    CASE direction = "North" -> RowMajorCells(0, rows - 1, 20, 24)
      [] direction = "South" -> RowMajorCells(0, rows - 1, 5, 9)
      [] direction = "East" -> ColMajorCells(0, cols - 1, 20, 24)
      [] direction = "West" -> ColMajorCells(0, cols - 1, 5, 9)

calculate_straight_path_distance(direction) == 300

\* <<cells, distance>> of segment 1 of a turning route
calculate_path_to_turn(direction, route, turn_pos) ==
    CASE direction = "North" ->
           LET laneLo == IF route = "Left" THEN 15 ELSE 25
               entry_y == 650
               start_row == (turn_pos[2] - IY_MIN) \div zone_px
               end_row == (entry_y - IY_MIN) \div zone_px
           IN  <<RowMajorCells(start_row, Min2(end_row, rows - 1), laneLo, laneLo + 4),
                 entry_y - turn_pos[2]>>
      [] direction = "South" ->
           LET laneLo == IF route = "Left" THEN 10 ELSE 0
               entry_y == 350
               start_row == (entry_y - IY_MIN) \div zone_px
               end_row == (turn_pos[2] - IY_MIN) \div zone_px
           IN  <<RowMajorCells(start_row, Min2(end_row, rows - 1), laneLo, laneLo + 4),
                 turn_pos[2] - entry_y>>
      [] direction = "East" ->
           LET laneLo == IF route = "Left" THEN 15 ELSE 25
               entry_x == 350
               start_col == (entry_x - IX_MIN) \div zone_px
               end_col == (turn_pos[1] - IX_MIN) \div zone_px
           IN  <<ColMajorCells(start_col, Min2(end_col, cols - 1), laneLo, laneLo + 4),
                 turn_pos[1] - entry_x>>
      [] direction = "West" ->
           LET laneLo == IF route = "Left" THEN 10 ELSE 0
               entry_x == 650
               start_col == (turn_pos[1] - IX_MIN) \div zone_px
               end_col == (entry_x - IX_MIN) \div zone_px
           IN  <<ColMajorCells(start_col, Min2(end_col, cols - 1), laneLo, laneLo + 4),
                 entry_x - turn_pos[1]>>

\* variant: a vehicle from the West on route Left is taken to leave to the North
new_direction_west_left_north(direction, route) ==
    CASE direction = "North" /\ route = "Right" -> "East"
      [] direction = "North" /\ route = "Left" -> "West"
      [] direction = "South" /\ route = "Right" -> "West"
      [] direction = "South" /\ route = "Left" -> "East"
      [] direction = "East" /\ route = "Right" -> "South"
      [] direction = "East" /\ route = "Left" -> "North"
      [] direction = "West" /\ route = "Right" -> "North"
      [] direction = "West" /\ route = "Left" -> "North"
      [] OTHER -> direction

\* the direction after the turn, as calculate_path_from_turn derives it
new_direction(direction, route) ==
    CASE direction = "North" /\ route = "Right" -> "East"
      [] direction = "North" /\ route = "Left" -> "West"
      [] direction = "South" /\ route = "Right" -> "West"
      [] direction = "South" /\ route = "Left" -> "East"
      [] direction = "East" /\ route = "Right" -> "South"
      [] direction = "East" /\ route = "Left" -> "North"
      [] direction = "West" /\ route = "Right" -> "North"
      [] direction = "West" /\ route = "Left" -> "South"
      [] OTHER -> direction

\* <<cells, distance>> of segment 2 of a turning route
calculate_path_from_turn(direction, route, turn_pos) ==
    LET nd == new_direction(direction, route) IN
    CASE nd = "North" ->
           LET exit_y == 350
               start_row == (exit_y - IY_MIN) \div zone_px
               end_row == (turn_pos[2] - IY_MIN) \div zone_px
           IN  <<RowMajorCells(start_row, Min2(end_row, rows - 1), 15, 19),
                 turn_pos[2] - exit_y>>
      [] nd = "South" ->
           LET exit_y == 650
               start_row == (turn_pos[2] - IY_MIN) \div zone_px
               end_row == (exit_y - IY_MIN) \div zone_px
           IN  <<RowMajorCells(start_row, Min2(end_row, rows - 1), 10, 14),
                 exit_y - turn_pos[2]>>
      [] nd = "East" ->
           LET exit_x == 650
               start_col == (turn_pos[1] - IX_MIN) \div zone_px
               end_col == (exit_x - IX_MIN) \div zone_px
           IN  <<ColMajorCells(start_col, Min2(end_col, cols - 1), 10, 14),
                 exit_x - turn_pos[1]>>
      [] nd = "West" ->
           LET exit_x == 350
               start_col == (exit_x - IX_MIN) \div zone_px
               end_col == (turn_pos[1] - IX_MIN) \div zone_px
           IN  <<ColMajorCells(start_col, Min2(end_col, cols - 1), 15, 19),
                 turn_pos[1] - exit_x>>

\* a VehiclePath; segment2 is <<>> (None) or <<PathSegment>> (Some)
calculate_vehicle_path(direction, route) ==
    IF route = "Straight"
    THEN [segment1 |-> [cells |-> calculate_straight_path_cells(direction),
                        distance |-> calculate_straight_path_distance(direction)],
          segment2 |-> <<>>,
          turn_position |-> <<>>]
    ELSE LET turn_pos == get_turn_position(direction, route)
             s1 == calculate_path_to_turn(direction, route, turn_pos)
             s2 == calculate_path_from_turn(direction, route, turn_pos)
         IN  [segment1 |-> [cells |-> s1[1], distance |-> s1[2]],
              segment2 |-> <<[cells |-> s2[1], distance |-> s2[2]]>>,
              turn_position |-> <<turn_pos>>]

\* variant: the cache is built for the routes Straight and Right only
path_cache_without_left ==
    [k \in Direction \X (Route \ {"Left"}) |-> calculate_vehicle_path(k[1], k[2])]

\* the path cache after initialize_path_cache
path_cache == [k \in Direction \X Route |-> calculate_vehicle_path(k[1], k[2])]

-----------------------------------------------------------------------------
(* Reservation grid (intersection.rs) *)

\* The grid is a Vec of cols * rows cells, each a Vec of TimeSlot.  The model keeps
\* the cells that hold a slot: a function from their indexes to their slot
\* sequences; a cell index outside its domain is a cell with no slot.
CellIndexes == 0..(cols * rows - 1)

cell_index(col, row) == row * cols + col

cell_slots(g, idx) == IF idx \in DOMAIN g THEN g[idx] ELSE <<>>

TimeSlot(start, end, vehicle_id) == [start |-> start, end |-> end, vehicle_id |-> vehicle_id]

\* variant: a reservation conflicts only when it begins inside [start, end)
conflict_start_inside(cell, start, end) ==
    \E k \in 1..Len(cell) : start <= cell[k].start /\ cell[k].start < end

\* variant: windows that only touch conflict too
conflict_closed(cell, start, end) ==
    \E k \in 1..Len(cell) : start <= cell[k].end /\ cell[k].start <= end

\* any slot of the cell overlaps [start, end)
conflict(cell, start, end) ==
    \E k \in 1..Len(cell) : start < cell[k].end /\ cell[k].start < end

\* variant: a cell outside the grid refuses the request
can_reserve_in_grid_only(g, cells, start_time, end_time) ==
    \A k \in 1..Len(cells) :
        /\ cells[k][1] < cols /\ cells[k][2] < rows
        /\ ~conflict(cell_slots(g, cell_index(cells[k][1], cells[k][2])), start_time, end_time)

\* variant: only the first listed cell is looked at
can_reserve_first_cell(g, cells, start_time, end_time) ==
    \A k \in 1..Min2(1, Len(cells)) :
        \/ cells[k][1] >= cols \/ cells[k][2] >= rows
        \/ ~conflict(cell_slots(g, cell_index(cells[k][1], cells[k][2])), start_time, end_time)

can_reserve_cells(g, cells, start_time, end_time) ==
    \A k \in 1..Len(cells) :
        \/ cells[k][1] >= cols \/ cells[k][2] >= rows
        \/ ~conflict(cell_slots(g, cell_index(cells[k][1], cells[k][2])), start_time, end_time)

\* the indexes of the listed cells that lie in the grid
in_bounds_indexes(cells) ==
    {cell_index(cells[k][1], cells[k][2]) :
        k \in {j \in 1..Len(cells) : ~(cells[j][1] >= cols \/ cells[j][2] >= rows)}}

\* how many times the list names the cell idx
occurrences(cells, idx) ==
    Cardinality({k \in 1..Len(cells) :
                    /\ ~(cells[k][1] >= cols \/ cells[k][2] >= rows)
                    /\ cell_index(cells[k][1], cells[k][2]) = idx})

\* variant: a cell that already holds the same reservation is left alone
reserve_once(g, vehicle_id, cells, start_time, end_time) ==
    LET named == in_bounds_indexes(cells)
        slot == TimeSlot(start_time, end_time, vehicle_id)
    IN  [idx \in DOMAIN g \cup named |->
            IF idx \in named /\ \A k \in 1..Len(cell_slots(g, idx)) : cell_slots(g, idx)[k] # slot
            THEN cell_slots(g, idx) \o <<slot>>
            ELSE g[idx]]

\* The loop pushes one slot for every in-bounds entry of the list; pushes to
\* different cells are independent, so each named cell gets as many slots as the
\* list names it.
reserve_cells_for_vehicle(g, vehicle_id, cells, start_time, end_time) ==
    LET named == in_bounds_indexes(cells)
        slot == TimeSlot(start_time, end_time, vehicle_id)
    IN  [idx \in DOMAIN g \cup named |->
            IF idx \in named
            THEN cell_slots(g, idx) \o [n \in 1..occurrences(cells, idx) |-> slot]
            ELSE g[idx]]

\* variant: a listed cell in which the vehicle holds a slot is emptied
release_clears_cells(g, cells, vehicle_id) ==
    LET named == in_bounds_indexes(cells)
        emptied == {idx \in DOMAIN g \cap named :
                       \E k \in 1..Len(g[idx]) : g[idx][k].vehicle_id = vehicle_id}
    IN  [idx \in DOMAIN g \ emptied |-> g[idx]]

\* retain(|slot| slot.vehicle_id != vehicle_id) on every in-bounds listed cell
release_specific_cells(g, cells, vehicle_id) ==
    LET named == in_bounds_indexes(cells)
        retained == [idx \in DOMAIN g |->
                        IF idx \in named
                        THEN SelectSeq(g[idx], LAMBDA slot : slot.vehicle_id # vehicle_id)
                        ELSE g[idx]]
    IN  [idx \in {i \in DOMAIN g : retained[i] # <<>>} |-> retained[idx]]

\* pixels per frame of a speed; Vehicle::update, calculate_time_with_speed and
\* update_stats_for_exiting_vehicle_by_data use the same table
pixels_per_frame(speed) ==
    CASE speed = "Slow" -> 3
      [] speed = "Medium" -> 5
      [] speed = "Fast" -> 7
      [] speed = "Stopped" -> 0

\* distance / speed_pixels_per_frame / 60 seconds, in time units
calculate_time_with_speed(distance, speed) ==
    IF speed = "Stopped" THEN 0
    ELSE (distance * FrameTime) \div pixels_per_frame(speed)

-----------------------------------------------------------------------------
(* Vehicle (vehicle.rs) *)

initial_rotation(direction) ==
    CASE direction = "North" -> 0
      [] direction = "South" -> 180
      [] direction = "East" -> 90
      [] direction = "West" -> 270

NewVehicle(id, route, direction, spawn_position, turn_position) ==
    [id |-> id, route |-> route, direction |-> direction, current_speed |-> "Fast",
     position |-> spawn_position, turn_position |-> turn_position,
     rotation |-> initial_rotation(direction), has_turned |-> FALSE,
     requested_intersection |-> FALSE, intersection_permission |-> FALSE]

get_center(v) ==
    <<v.position[1] + VehicleWidth \div 2, v.position[2] + VehicleHeight \div 2>>

\* <<x, y, w, h>>
get_visual_bounds(v) ==
    IF v.rotation % 360 \in {90, 270}
    THEN <<get_center(v)[1] - VehicleHeight \div 2, get_center(v)[2] - VehicleWidth \div 2,
           VehicleHeight, VehicleWidth>>
    ELSE <<v.position[1], v.position[2], VehicleWidth, VehicleHeight>>

execute_turn(v) ==
    IF v.route = "Right"
    THEN CASE v.direction = "North" -> [v EXCEPT !.direction = "East", !.rotation = 90]
           [] v.direction = "South" -> [v EXCEPT !.direction = "West", !.rotation = 270]
           [] v.direction = "East" -> [v EXCEPT !.direction = "South", !.rotation = 180]
           [] v.direction = "West" -> [v EXCEPT !.direction = "North", !.rotation = 0]
    ELSE IF v.route = "Left"
    THEN CASE v.direction = "North" -> [v EXCEPT !.direction = "West", !.rotation = 270]
           [] v.direction = "South" -> [v EXCEPT !.direction = "East", !.rotation = 90]
           [] v.direction = "East" -> [v EXCEPT !.direction = "North", !.rotation = 0]
           [] v.direction = "West" -> [v EXCEPT !.direction = "South", !.rotation = 180]
    ELSE v

\* sqrt(dx*dx + dy*dy) <= 25.0, on whole dx and dy
near_turn_position(v) ==
    LET dx == get_center(v)[1] - v.turn_position[1]
        dy == get_center(v)[2] - v.turn_position[2]
    IN  dx * dx + dy * dy <= 25 * 25

move(v) ==
    LET p == pixels_per_frame(v.current_speed) IN
    CASE v.direction = "North" -> [v EXCEPT !.position[2] = @ - p]
      [] v.direction = "South" -> [v EXCEPT !.position[2] = @ + p]
      [] v.direction = "East" -> [v EXCEPT !.position[1] = @ + p]
      [] v.direction = "West" -> [v EXCEPT !.position[1] = @ - p]

\* variant: the position step is taken first and the turn made after it
vehicle_update_move_then_turn(v) ==
    IF ~v.has_turned /\ near_turn_position(v)
    THEN [execute_turn(move(v)) EXCEPT !.has_turned = TRUE]
    ELSE move(v)
\* variant: the turn is made in every frame that finds the vehicle at its turn position
vehicle_update_turn_again(v) ==
    IF near_turn_position(v)
    THEN move([execute_turn(v) EXCEPT !.has_turned = TRUE])
    ELSE move(v)

\* Vehicle::update
vehicle_update(v) ==
    IF ~v.has_turned /\ near_turn_position(v)
    THEN move([execute_turn(v) EXCEPT !.has_turned = TRUE])
    ELSE move(v)

distance_to_intersection(v) ==
    LET b == get_visual_bounds(v)
        cx == b[1] + b[3] \div 2
        cy == b[2] + b[4] \div 2
    IN  CASE v.direction = "North" -> IF cy > 650 THEN cy - 650 ELSE 0
          [] v.direction = "South" -> IF cy < 350 THEN 350 - cy ELSE 0
          [] v.direction = "East" -> IF cx < 350 THEN 350 - cx ELSE 0
          [] v.direction = "West" -> IF cx > 650 THEN cx - 650 ELSE 0

is_in_intersection(v) ==
    LET b == get_visual_bounds(v)
        right == b[1] + b[3]
        bottom == b[2] + b[4]
    IN  ~(right < 350 \/ b[1] > 650 \/ bottom < 350 \/ b[2] > 650)

\* variant: centres less than 60 apart are in one lane
is_in_same_lane_within_60(v, other) ==
    /\ v.direction = other.direction
    /\ IF v.direction \in {"North", "South"}
       THEN Abs(get_center(v)[1] - get_center(other)[1]) < 60
       ELSE Abs(get_center(v)[2] - get_center(other)[2]) < 60

is_in_same_lane(v, other) ==
    /\ v.direction = other.direction
    /\ IF v.direction \in {"North", "South"}
       THEN Abs(get_center(v)[1] - get_center(other)[1]) < 30
       ELSE Abs(get_center(v)[2] - get_center(other)[2]) < 30

is_ahead_of_me(v, other) ==
    /\ is_in_same_lane(v, other)
    /\ CASE v.direction = "North" -> get_center(other)[2] < get_center(v)[2]
         [] v.direction = "South" -> get_center(other)[2] > get_center(v)[2]
         [] v.direction = "East" -> get_center(other)[1] > get_center(v)[1]
         [] v.direction = "West" -> get_center(other)[1] < get_center(v)[1]

is_past_intersection(v) ==
    CASE v.direction = "North" -> get_center(v)[2] < 350
      [] v.direction = "South" -> get_center(v)[2] > 650
      [] v.direction = "East" -> get_center(v)[1] > 650
      [] v.direction = "West" -> get_center(v)[1] < 350

distance_to_vehicle(v, other) ==
    IF v.direction \in {"North", "South"}
    THEN Abs(get_center(v)[2] - get_center(other)[2])
    ELSE Abs(get_center(v)[1] - get_center(other)[1])

get_safe_following_distance(v, lead_vehicle) ==
    LET my_length == IF v.direction \in {"North", "South"} THEN VehicleHeight ELSE VehicleWidth
        lead_length == IF lead_vehicle.direction \in {"North", "South"}
                       THEN VehicleHeight ELSE VehicleWidth
    IN  my_length \div 2 + lead_length \div 2 + SafetyDistance

is_outside_canvas(v) ==
    \/ v.position[1] < -100 \/ v.position[1] > 1100
    \/ v.position[2] < -100 \/ v.position[2] > 1100

-----------------------------------------------------------------------------
(* Following model: first loop of update_vehicles_with_two_path_system *)

\* the index of the vehicle the scan keeps: the first one at the least distance
\* among those ahead; 0 when none is ahead
closest_ahead(vs, i) ==
    LET ahead == {j \in 1..Len(vs) : j # i /\ is_ahead_of_me(vs[i], vs[j])}
    IN  IF ahead = {} THEN 0
        ELSE CHOOSE j \in ahead :
                 \A k \in ahead :
                     \/ distance_to_vehicle(vs[i], vs[j]) < distance_to_vehicle(vs[i], vs[k])
                     \/ /\ distance_to_vehicle(vs[i], vs[j]) = distance_to_vehicle(vs[i], vs[k])
                        /\ j <= k

\* variant: Medium up to the whole required distance
following_speed_medium_to_100(closest_distance, required_distance) ==
    IF closest_distance < required_distance
    THEN IF closest_distance * 10 < required_distance * 7 THEN "Stopped" ELSE "Medium"
    ELSE "Fast"

\* closest_distance < required_distance * 0.7 (0.8), in tenths
following_speed(closest_distance, required_distance) ==
    IF closest_distance < required_distance
    THEN IF closest_distance * 10 < required_distance * 7 THEN "Stopped"
         ELSE IF closest_distance * 10 < required_distance * 8 THEN "Medium"
         ELSE "Fast"
    ELSE "Fast"

\* the target speed of vs[i] when the scan kept vs[j] (j = 0: no vehicle ahead)
speed_behind(vs, i, j) ==
    IF j = 0 THEN "Fast"
    ELSE following_speed(distance_to_vehicle(vs[i], vs[j]),
                         get_safe_following_distance(vs[i], vs[j]))

traffic_target_speed(vs, i) ==
    IF is_past_intersection(vs[i]) THEN "Fast"
    ELSE speed_behind(vs, i, closest_ahead(vs, i))

-----------------------------------------------------------------------------
(* Admission negotiation: try_two_path_intersection_request *)

\* variant: a stopped vehicle has no candidate to try
speeds_to_try_none_when_stopped(current_speed) ==
    CASE current_speed = "Fast" -> <<"Fast", "Medium", "Slow">>
      [] current_speed = "Medium" -> <<"Medium", "Slow">>
      [] current_speed = "Slow" -> <<"Slow">>
      [] current_speed = "Stopped" -> <<>>

\* variant: a vehicle at Fast falls from Fast to Slow
speeds_to_try_without_medium(current_speed) ==
    CASE current_speed = "Fast" -> <<"Fast", "Slow">>
      [] current_speed = "Medium" -> <<"Medium", "Slow">>
      [] current_speed = "Slow" -> <<"Slow">>
      [] current_speed = "Stopped" -> <<"Fast">>

\* variant: a stopped vehicle tries every candidate
speeds_to_try_all_when_stopped(current_speed) ==
    CASE current_speed = "Fast" -> <<"Fast", "Medium", "Slow">>
      [] current_speed = "Medium" -> <<"Medium", "Slow">>
      [] current_speed = "Slow" -> <<"Slow">>
      [] current_speed = "Stopped" -> <<"Fast", "Medium", "Slow">>

\* for speed in speeds_to_try: a stopped vehicle tries Fast alone

speeds_to_try(current_speed) ==
    CASE current_speed = "Fast" -> <<"Fast", "Medium", "Slow">>
      [] current_speed = "Medium" -> <<"Medium", "Slow">>
      [] current_speed = "Slow" -> <<"Slow">>
      [] current_speed = "Stopped" -> <<"Fast">>

\* variant: the windows begin at the time of the request, without the time to reach
\* the zone
attempt_from_now(g, path, attempt_speed, now, distance) ==
    LET segment1_time == calculate_time_with_speed(path.segment1.distance, attempt_speed)
        segment1_entry == now
        segment1_exit == segment1_entry + segment1_time
        segment2_exit == IF path.segment2 = <<>> THEN segment1_exit
                         ELSE segment1_exit
                              + calculate_time_with_speed(path.segment2[1].distance, attempt_speed)
        ok1 == can_reserve_cells(g, path.segment1.cells, segment1_entry, segment1_exit)
        ok2 == ok1 /\ (path.segment2 = <<>>
                       \/ can_reserve_cells(g, path.segment2[1].cells, segment1_exit, segment2_exit))
    IN  [speed |-> attempt_speed, segment1_entry |-> segment1_entry,
         segment1_exit |-> segment1_exit, segment2_exit |-> segment2_exit,
         ok1 |-> ok1, ok2 |-> ok2]

\* the windows of one candidate speed and what can_reserve_cells answers for them;
\* ok2 is evaluated only when segment 1 is admissible, as in the loop body
attempt(g, path, attempt_speed, now, distance) ==
    LET time_to_intersection == calculate_time_with_speed(distance, attempt_speed)
        segment1_time == calculate_time_with_speed(path.segment1.distance, attempt_speed)
        segment1_entry == now + time_to_intersection
        segment1_exit == segment1_entry + segment1_time
        segment2_exit == IF path.segment2 = <<>> THEN segment1_exit
                         ELSE segment1_exit
                              + calculate_time_with_speed(path.segment2[1].distance, attempt_speed)
        ok1 == can_reserve_cells(g, path.segment1.cells, segment1_entry, segment1_exit)
        ok2 == ok1 /\ (path.segment2 = <<>>
                       \/ can_reserve_cells(g, path.segment2[1].cells, segment1_exit, segment2_exit))
    IN  [speed |-> attempt_speed, segment1_entry |-> segment1_entry,
         segment1_exit |-> segment1_exit, segment2_exit |-> segment2_exit,
         ok1 |-> ok1, ok2 |-> ok2]

\* the two reserve_cells_for_vehicle calls of an admitted candidate
commit(g, vehicle_id, path, a) ==
    LET g1 == reserve_cells_for_vehicle(g, vehicle_id, path.segment1.cells,
                                        a.segment1_entry, a.segment1_exit)
    IN  IF path.segment2 = <<>> THEN g1
        ELSE reserve_cells_for_vehicle(g1, vehicle_id, path.segment2[1].cells,
                                       a.segment1_exit, a.segment2_exit)

\* variant: segment 1 is reserved as soon as it is admissible, before segment 2 is
\* asked for
RECURSIVE try_from_partial(_, _, _, _, _, _, _, _)
try_from_partial(g, vehicle_id, path, speeds, k, now, distance, tried) ==
    IF k > Len(speeds)
    THEN [permission |-> FALSE, speed |-> "Stopped", grid |-> g, tried |-> tried]
    ELSE LET a == attempt(g, path, speeds[k], now, distance)
             g1 == IF a.ok1
                   THEN reserve_cells_for_vehicle(g, vehicle_id, path.segment1.cells,
                                                  a.segment1_entry, a.segment1_exit)
                   ELSE g
         IN  IF a.ok1 /\ a.ok2
             THEN [permission |-> TRUE, speed |-> speeds[k],
                   grid |-> IF path.segment2 = <<>> THEN g1
                            ELSE reserve_cells_for_vehicle(g1, vehicle_id, path.segment2[1].cells,
                                                           a.segment1_exit, a.segment2_exit),
                   tried |-> Append(tried, a)]
             ELSE try_from_partial(g1, vehicle_id, path, speeds, k + 1, now, distance,
                                   Append(tried, a))

\* the loop over speeds_to_try from candidate k on; tried collects the attempts made
RECURSIVE try_from(_, _, _, _, _, _, _, _)
try_from(g, vehicle_id, path, speeds, k, now, distance, tried) ==
    IF k > Len(speeds)
    THEN [permission |-> FALSE, speed |-> "Stopped", grid |-> g, tried |-> tried]
    ELSE LET a == attempt(g, path, speeds[k], now, distance) IN
         IF a.ok1 /\ a.ok2
         THEN [permission |-> TRUE, speed |-> speeds[k],
               grid |-> commit(g, vehicle_id, path, a), tried |-> Append(tried, a)]
         ELSE try_from(g, vehicle_id, path, speeds, k + 1, now, distance, Append(tried, a))

\* The loop also writes the candidate (and Stopped on refusal) into the vehicle's
\* current_speed; the apply phase of the same update overwrites that field before
\* anything reads it, so the write is not carried in the model.
try_two_path_intersection_request(g, vehicle_id, route, direction, current_speed, now, distance) ==
    IF <<direction, route>> \notin DOMAIN path_cache
    THEN [permission |-> FALSE, speed |-> "Slow", grid |-> g, tried |-> <<>>]
    ELSE try_from(g, vehicle_id, path_cache[<<direction, route>>],
                  speeds_to_try(current_speed), 1, now, distance, <<>>)

-----------------------------------------------------------------------------
(* Trailing-edge release: calculate_cells_to_release_two_path *)

cells_in_row(cells, row) == SelectSeq(cells, LAMBDA c : c[2] = row)
cells_in_col(cells, col) == SelectSeq(cells, LAMBDA c : c[1] = col)

calculate_cells_to_release_two_path(direction, route, vx, vy, vw, vh) ==
    IF <<direction, route>> \notin DOMAIN path_cache THEN <<>>
    ELSE LET path == path_cache[<<direction, route>>]
             behind == CASE direction = "North" -> vy + vh
                         [] direction = "South" -> vy
                         [] direction = "East" -> vx
                         [] direction = "West" -> vx + vw
         IN  IF direction \in {"North", "South"}
             THEN IF behind >= IY_MIN /\ behind <= IY_MAX
                  THEN cells_in_row(path.segment1.cells, (behind - IY_MIN) \div zone_px)
                  ELSE <<>>
             ELSE IF behind >= IX_MIN /\ behind <= IX_MAX
                  THEN cells_in_col(path.segment1.cells, (behind - IX_MIN) \div zone_px)
                  ELSE <<>>

-----------------------------------------------------------------------------
(* Second loop of update_vehicles_with_two_path_system: one vehicle's decision *)

\* variant: the flags are reset wherever the vehicle is short of the edge of the zone
far_reset_short_of_zone(distance, flag) == IF distance > 0 THEN FALSE ELSE flag

\* variant: the flags are reset beyond 300
far_reset_at_300(distance, flag) == IF distance > 300 THEN FALSE ELSE flag

\* "Reset intersection status if far away", applied to either flag
far_reset(distance, flag) == IF distance > 150 THEN FALSE ELSE flag

\* a negotiation made for v: what it was called with, what it tried and answered,
\* and the grid before and after it
RequestLog(v, current_speed, now, distance, g, r) ==
    [vehicle_id |-> v.id, route |-> v.route, direction |-> v.direction,
     current_speed |-> current_speed, now |-> now, distance |-> distance,
     tried |-> r.tried, permission |-> r.permission, speed |-> r.speed,
     before |-> g, after |-> r.grid]

\* the branches that make no negotiation: Fast, the flags and the grid as they are
keep_decision(g, requested, permission) ==
    [speed |-> "Fast", requested |-> requested, permission |-> permission,
     grid |-> g, request |-> <<>>]

\* "At intersection entrance": the negotiation r was made with Fast
entrance_decision(g, v, now, distance, r) ==
    [speed |-> IF r.permission THEN "Fast" ELSE "Stopped",
     requested |-> TRUE, permission |-> r.permission, grid |-> r.grid,
     request |-> <<RequestLog(v, "Fast", now, distance, g, r)>>]

\* variant: a refusal further than 15 from the zone slows the vehicle down
approach_decision_slow_when_refused(g, v, now, distance, r) ==
    [speed |-> IF ~r.permission /\ distance <= 15 THEN "Stopped"
               ELSE IF ~r.permission THEN "Slow" ELSE r.speed,
     requested |-> TRUE, permission |-> r.permission, grid |-> r.grid,
     request |-> <<RequestLog(v, v.current_speed, now, distance, g, r)>>]

\* "Approaching intersection": the negotiation r was made with the vehicle's speed
approach_decision(g, v, now, distance, r) ==
    [speed |-> IF ~r.permission /\ distance <= 15 THEN "Stopped" ELSE r.speed,
     requested |-> TRUE, permission |-> r.permission, grid |-> r.grid,
     request |-> <<RequestLog(v, v.current_speed, now, distance, g, r)>>]

\* variant: a vehicle that has asked once does not ask again
intersection_speed_ask_once(g, v, now, distance, requested, permission) ==
    IF is_past_intersection(v) THEN keep_decision(g, requested, permission)
    ELSE IF distance > 60 THEN keep_decision(g, requested, permission)
    ELSE IF is_in_intersection(v) THEN keep_decision(g, requested, permission)
    ELSE IF ~requested
    THEN approach_decision(g, v, now, distance,
             try_two_path_intersection_request(
                 g, v.id, v.route, v.direction, v.current_speed, now, distance))
    ELSE keep_decision(g, requested, permission)

\* variant: a vehicle short of the zone negotiates in every tick, granted or not
intersection_speed_ask_again(g, v, now, distance, requested, permission) ==
    IF is_past_intersection(v) THEN keep_decision(g, requested, permission)
    ELSE IF distance > 60 THEN keep_decision(g, requested, permission)
    ELSE IF is_in_intersection(v) THEN keep_decision(g, requested, permission)
    ELSE IF TRUE
    THEN IF distance <= 10
         THEN entrance_decision(g, v, now, distance,
                  try_two_path_intersection_request(
                      g, v.id, v.route, v.direction, "Fast", now, distance))
         ELSE approach_decision(g, v, now, distance,
                  try_two_path_intersection_request(
                      g, v.id, v.route, v.direction, v.current_speed, now, distance))
    ELSE keep_decision(g, requested, permission)

\* variant: the negotiation starts within 100 of the zone
intersection_speed_from_100(g, v, now, distance, requested, permission) ==
    IF is_past_intersection(v) THEN keep_decision(g, requested, permission)
    ELSE IF distance > 100 THEN keep_decision(g, requested, permission)
    ELSE IF is_in_intersection(v) THEN keep_decision(g, requested, permission)
    ELSE IF ~requested \/ ~permission
    THEN IF distance <= 10 /\ ~permission
         THEN entrance_decision(g, v, now, distance,
                  try_two_path_intersection_request(
                      g, v.id, v.route, v.direction, "Fast", now, distance))
         ELSE approach_decision(g, v, now, distance,
                  try_two_path_intersection_request(
                      g, v.id, v.route, v.direction, v.current_speed, now, distance))
    ELSE keep_decision(g, requested, permission)

\* the intersection_speed expression for the flags left by the far reset
intersection_speed_of(g, v, now, distance, requested, permission) ==
    IF is_past_intersection(v) THEN keep_decision(g, requested, permission)
    ELSE IF distance > 60 THEN keep_decision(g, requested, permission)
    ELSE IF is_in_intersection(v) THEN keep_decision(g, requested, permission)
    ELSE IF ~requested \/ ~permission
    THEN IF distance <= 10 /\ ~permission
         THEN entrance_decision(g, v, now, distance,
                  try_two_path_intersection_request(
                      g, v.id, v.route, v.direction, "Fast", now, distance))
         ELSE approach_decision(g, v, now, distance,
                  try_two_path_intersection_request(
                      g, v.id, v.route, v.direction, v.current_speed, now, distance))
    ELSE keep_decision(g, requested, permission)

\* the far reset and the intersection_speed expression: the speed, the flags and the
\* grid they leave; request is <<>> when no negotiation was made
intersection_decision(g, v, now) ==
    intersection_speed_of(g, v, now, distance_to_intersection(v),
                          far_reset(distance_to_intersection(v), v.requested_intersection),
                          far_reset(distance_to_intersection(v), v.intersection_permission))

\* variant: a vehicle past the zone is given Medium
final_speed_medium_when_past(is_past, traffic_speed, intersection_speed) ==
    IF is_past THEN "Medium"
    ELSE IF traffic_speed = "Stopped" \/ intersection_speed = "Stopped" THEN "Stopped"
    ELSE IF traffic_speed = "Slow" \/ intersection_speed = "Slow" THEN "Slow"
    ELSE IF traffic_speed = "Medium" \/ intersection_speed = "Medium" THEN "Medium"
    ELSE "Fast"

\* variant: a vehicle past the zone is given the lower of the two speeds as well
final_speed_past_too(is_past, traffic_speed, intersection_speed) ==
    IF traffic_speed = "Stopped" \/ intersection_speed = "Stopped" THEN "Stopped"
    ELSE IF traffic_speed = "Slow" \/ intersection_speed = "Slow" THEN "Slow"
    ELSE IF traffic_speed = "Medium" \/ intersection_speed = "Medium" THEN "Medium"
    ELSE "Fast"

\* variant: Medium is looked for before Slow
final_speed_medium_first(is_past, traffic_speed, intersection_speed) ==
    IF is_past THEN "Fast"
    ELSE IF traffic_speed = "Stopped" \/ intersection_speed = "Stopped" THEN "Stopped"
    ELSE IF traffic_speed = "Medium" \/ intersection_speed = "Medium" THEN "Medium"
    ELSE IF traffic_speed = "Slow" \/ intersection_speed = "Slow" THEN "Slow"
    ELSE "Fast"

\* "Determine final speed"
final_speed(is_past, traffic_speed, intersection_speed) ==
    IF is_past THEN "Fast"
    ELSE IF traffic_speed = "Stopped" \/ intersection_speed = "Stopped" THEN "Stopped"
    ELSE IF traffic_speed = "Slow" \/ intersection_speed = "Slow" THEN "Slow"
    ELSE IF traffic_speed = "Medium" \/ intersection_speed = "Medium" THEN "Medium"
    ELSE "Fast"

\* "Calculate cells to release", from the bounds read at the top of the iteration
cells_to_release(v) ==
    LET b == get_visual_bounds(v) IN
    IF is_in_intersection(v) \/ distance_to_intersection(v) < 50
    THEN calculate_cells_to_release_two_path(v.direction, v.route, b[1], b[2], b[3], b[4])
    ELSE <<>>

\* one entry of vehicle_updates, with what the iteration read and computed
vehicle_update_entry(v, traffic_speed, dec) ==
    [vehicle_id |-> v.id,
     distance |-> distance_to_intersection(v),
     is_past_intersection |-> is_past_intersection(v),
     is_in_intersection |-> is_in_intersection(v),
     requested_before |-> v.requested_intersection,
     permission_before |-> v.intersection_permission,
     traffic_speed |-> traffic_speed,
     intersection_speed |-> dec.speed,
     final_speed |-> final_speed(is_past_intersection(v), traffic_speed, dec.speed),
     requested_intersection |-> dec.requested,
     intersection_permission |-> dec.permission,
     cells_to_release |-> cells_to_release(v),
     request |-> dec.request]

\* the grid and the entry one iteration of the second loop leaves
decided(v, traffic_speed, dec) ==
    [grid |-> dec.grid, update |-> vehicle_update_entry(v, traffic_speed, dec)]

vehicle_decision(g, v, traffic_speed, now) ==
    decided(v, traffic_speed, intersection_decision(g, v, now))

\* variant: every vehicle of the tick negotiates on the grid the tick started with
RECURSIVE process_requests_unseen(_, _, _, _, _, _)
process_requests_unseen(vs, target_speeds, g, now, i, updates) ==
    IF i > Len(vs) THEN [grid |-> g, updates |-> updates]
    ELSE LET d == vehicle_decision(g, vs[i], target_speeds[i], now)
         IN  process_requests_unseen(vs, target_speeds, g, now, i + 1, Append(updates, d.update))

\* the second loop from vehicle i on: the grid it leaves and vehicle_updates
RECURSIVE process_requests(_, _, _, _, _, _)
process_requests(vs, target_speeds, g, now, i, updates) ==
    IF i > Len(vs) THEN [grid |-> g, updates |-> updates]
    ELSE LET d == vehicle_decision(g, vs[i], target_speeds[i], now)
         IN  process_requests(vs, target_speeds, d.grid, now, i + 1, Append(updates, d.update))

-----------------------------------------------------------------------------
(* Third loop: apply the updates, release, detect close calls *)

normalized_pair(a, b) == IF a < b THEN <<a, b>> ELSE <<b, a>>

\* variant: a pair already flagged is counted again
new_close_call_pairs_unchecked(vs, i, pairs) ==
    IF ~is_in_intersection(vs[i]) THEN {}
    ELSE {normalized_pair(vs[i].id, vs[j].id) : j \in
             {j \in 1..Len(vs) :
                 /\ j # i
                 /\ distance_to_vehicle(vs[i], vs[j]) < 5
                 /\ is_in_intersection(vs[i]) /\ is_in_intersection(vs[j])}}

\* the pairs detect_close_calls(i) inserts; each adds one to close_calls
new_close_call_pairs(vs, i, pairs) ==
    IF ~is_in_intersection(vs[i]) THEN {}
    ELSE {normalized_pair(vs[i].id, vs[j].id) : j \in
             {j \in 1..Len(vs) :
                 /\ j # i
                 /\ normalized_pair(vs[i].id, vs[j].id) \notin pairs
                 /\ distance_to_vehicle(vs[i], vs[j]) < 5
                 /\ is_in_intersection(vs[i]) /\ is_in_intersection(vs[j])}}

RECURSIVE apply_updates(_, _, _, _, _, _)
apply_updates(vs, g, cc, pairs, updates, i) ==
    IF i > Len(updates)
    THEN [vehicles |-> vs, grid |-> g, close_calls |-> cc, pairs |-> pairs]
    ELSE LET u == updates[i]
             moved == vehicle_update(
                          [vs[i] EXCEPT !.current_speed = u.final_speed,
                                        !.requested_intersection = u.requested_intersection,
                                        !.intersection_permission = u.intersection_permission])
             vs1 == [vs EXCEPT ![i] = moved]
             g1 == IF u.cells_to_release # <<>>
                   THEN release_specific_cells(g, u.cells_to_release, u.vehicle_id)
                   ELSE g
             new == new_close_call_pairs(vs1, i, pairs)
         IN  apply_updates(vs1, g1, cc + Cardinality(new), pairs \cup new, updates, i + 1)

\* the third loop over the vehicle_updates of the second
apply_decided(vs, cc, pairs, d) ==
    [applied |-> apply_updates(vs, d.grid, cc, pairs, d.updates, 1), updates |-> d.updates]

\* variant: the following model of a vehicle sees the vehicles before it in the list
\* where their own step of the tick takes them
update_vehicles_one_by_one(vs, g, cc, pairs, now) ==
    apply_decided(vs, cc, pairs,
                  process_requests(vs,
                                   [i \in 1..Len(vs) |->
                                       traffic_target_speed(
                                           [j \in 1..Len(vs) |->
                                               IF j < i THEN vehicle_update(vs[j]) ELSE vs[j]],
                                           i)],
                                   g, now, 1, <<>>))

update_vehicles_with_two_path_system(vs, g, cc, pairs, now) ==
    apply_decided(vs, cc, pairs,
                  process_requests(vs, [i \in 1..Len(vs) |-> traffic_target_speed(vs, i)],
                                   g, now, 1, <<>>))

-----------------------------------------------------------------------------
(* update: removal, statistics, dwell times *)

Max2(a, b) == IF a >= b THEN a ELSE b

remove_key(f, ids) == [k \in DOMAIN f \ ids |-> f[k]]

\* track_intersection_times: <<times, max, min>> after the pass over vs
track_intersection_times(vs, times, maxT, minT, now) ==
    LET present == {vs[i].id : i \in 1..Len(vs)}
        inside == {vs[i].id : i \in {j \in 1..Len(vs) : is_in_intersection(vs[j])}}
        entered == inside \ DOMAIN times
        left == (present \ inside) \cap DOMAIN times
        durations == {now - times[id] : id \in left}
        inserted == [k \in DOMAIN times \cup entered |->
                        IF k \in DOMAIN times THEN times[k] ELSE now]
    IN  <<remove_key(inserted, left),
          IF durations = {} THEN maxT
          ELSE Max2(maxT, CHOOSE d \in durations : \A e \in durations : e <= d),
          IF durations = {} THEN minT
          ELSE Min2(minT, CHOOSE d \in durations : \A e \in durations : d <= e)>>

-----------------------------------------------------------------------------
(* Actions of the engine *)

EmptyGrid == <<>>
NoOp == [kind |-> "none"]

Init ==
    /\ active_vehicles = <<>>
    /\ grid = EmptyGrid
    /\ next_id = 1
    /\ current_time = 0
    /\ total_vehicles_passed = 0
    /\ max_velocity_recorded = 0
    /\ min_velocity_recorded = F32_MAX
    /\ max_time_in_intersection = 0
    /\ min_time_in_intersection = F32_MAX
    /\ close_calls = 0
    /\ close_call_pairs_this_frame = {}
    /\ vehicle_intersection_times = <<>>
    /\ tick_log = <<>>
    /\ op = NoOp

\* variant: a vehicle at exactly 100 refuses the spawn too
is_safe_to_spawn_beyond_100(vs, direction, route, spawn_pos) ==
    \A i \in 1..Len(vs) :
        (vs[i].direction = direction /\ vs[i].route = route) =>
            ~(IF direction \in {"North", "South"}
              THEN Abs(vs[i].position[2] - spawn_pos[2]) <= 100
              ELSE Abs(vs[i].position[1] - spawn_pos[1]) <= 100)

is_safe_to_spawn(vs, direction, route, spawn_pos) ==
    \A i \in 1..Len(vs) :
        (vs[i].direction = direction /\ vs[i].route = route) =>
            ~(IF direction \in {"North", "South"}
              THEN Abs(vs[i].position[2] - spawn_pos[2]) < 100
              ELSE Abs(vs[i].position[1] - spawn_pos[1]) < 100)

\* spawn_vehicle with the direction given and the route drawn by get_random_route
\* (the texture load of Vehicle::new is taken to succeed)
spawn_vehicle(dir, route) ==
    /\ next_id <= MaxVehicles
    /\ current_time <= MaxSpawnTick * FrameTime
    /\ LET spawn_pos == get_spawn_position(dir, route)
           turn_pos == get_turn_position(dir, route)
       IN  IF is_safe_to_spawn(active_vehicles, dir, route, spawn_pos)
           THEN /\ active_vehicles' = Append(active_vehicles,
                                             NewVehicle(next_id, route, dir, spawn_pos, turn_pos))
                /\ next_id' = next_id + 1
           ELSE UNCHANGED <<active_vehicles, next_id>>
    /\ UNCHANGED <<grid, current_time, total_vehicles_passed, max_velocity_recorded,
                   min_velocity_recorded, max_time_in_intersection,
                   min_time_in_intersection, close_calls, close_call_pairs_this_frame,
                   vehicle_intersection_times, tick_log, op>>

\* the statistics of the vehicles removed and the dwell times after the removal
track_after_removal(kept, gone_ids, times, maxT, minT, now) ==
    track_intersection_times(kept, remove_key(times, gone_ids), maxT, minT, now)

\* variant: the vehicles removed are not counted
update_fields_uncounted(r, gone, t, maxV, minV, total) ==
    [active_vehicles |-> SelectSeq(r.applied.vehicles, LAMBDA v : ~is_outside_canvas(v)),
     grid |-> r.applied.grid,
     close_calls |-> r.applied.close_calls,
     close_call_pairs_this_frame |-> r.applied.pairs,
     total_vehicles_passed |-> total,
     max_velocity_recorded |->
         IF gone = <<>> THEN maxV
         ELSE Max2(maxV, CHOOSE s \in {pixels_per_frame(gone[k].current_speed) : k \in 1..Len(gone)} :
                             \A k \in 1..Len(gone) : pixels_per_frame(gone[k].current_speed) <= s),
     min_velocity_recorded |->
         IF gone = <<>> THEN minV
         ELSE Min2(minV, CHOOSE s \in {pixels_per_frame(gone[k].current_speed) : k \in 1..Len(gone)} :
                             \A k \in 1..Len(gone) : s <= pixels_per_frame(gone[k].current_speed)),
     vehicle_intersection_times |-> t[1],
     max_time_in_intersection |-> t[2],
     min_time_in_intersection |-> t[3],
     tick_log |-> r.updates]

\* the fields update leaves: r the result of update_vehicles_with_two_path_system,
\* gone the vehicles outside the canvas, t the result of track_intersection_times
update_fields(r, gone, t, maxV, minV, total) ==
    [active_vehicles |-> SelectSeq(r.applied.vehicles, LAMBDA v : ~is_outside_canvas(v)),
     grid |-> r.applied.grid,
     close_calls |-> r.applied.close_calls,
     close_call_pairs_this_frame |-> r.applied.pairs,
     total_vehicles_passed |-> total + Len(gone),
     max_velocity_recorded |->
         IF gone = <<>> THEN maxV
         ELSE Max2(maxV, CHOOSE s \in {pixels_per_frame(gone[k].current_speed) : k \in 1..Len(gone)} :
                             \A k \in 1..Len(gone) : pixels_per_frame(gone[k].current_speed) <= s),
     min_velocity_recorded |->
         IF gone = <<>> THEN minV
         ELSE Min2(minV, CHOOSE s \in {pixels_per_frame(gone[k].current_speed) : k \in 1..Len(gone)} :
                             \A k \in 1..Len(gone) : s <= pixels_per_frame(gone[k].current_speed)),
     vehicle_intersection_times |-> t[1],
     max_time_in_intersection |-> t[2],
     min_time_in_intersection |-> t[3],
     tick_log |-> r.updates]

\* the removal of the vehicles that left the canvas, then track_intersection_times
remove_and_track(r, times, maxT, minT, maxV, minV, total, now) ==
    update_fields(r, SelectSeq(r.applied.vehicles, is_outside_canvas),
                  track_after_removal(
                      SelectSeq(r.applied.vehicles, LAMBDA v : ~is_outside_canvas(v)),
                      {r.applied.vehicles[i].id :
                          i \in {j \in 1..Len(r.applied.vehicles) :
                                    is_outside_canvas(r.applied.vehicles[j])}},
                      times, maxT, minT, now),
                  maxV, minV, total)

\* what update leaves, computed from the state at the start of the frame
update_result(vs, g, cc, pairs, times, maxT, minT, maxV, minV, total, now) ==
    remove_and_track(update_vehicles_with_two_path_system(vs, g, cc, pairs, now),
                     times, maxT, minT, maxV, minV, total, now)

\* one frame of the host loop: current_time += 1/60, then update(current_time)
update ==
    /\ current_time < MaxTick * FrameTime
    /\ \E u \in {update_result(active_vehicles, grid, close_calls,
                               close_call_pairs_this_frame, vehicle_intersection_times,
                               max_time_in_intersection, min_time_in_intersection,
                               max_velocity_recorded, min_velocity_recorded,
                               total_vehicles_passed, current_time + FrameTime)} :
           /\ current_time' = current_time + FrameTime
           /\ active_vehicles' = u.active_vehicles
           /\ grid' = u.grid
           /\ close_calls' = u.close_calls
           /\ close_call_pairs_this_frame' = u.close_call_pairs_this_frame
           /\ total_vehicles_passed' = u.total_vehicles_passed
           /\ max_velocity_recorded' = u.max_velocity_recorded
           /\ min_velocity_recorded' = u.min_velocity_recorded
           /\ vehicle_intersection_times' = u.vehicle_intersection_times
           /\ max_time_in_intersection' = u.max_time_in_intersection
           /\ min_time_in_intersection' = u.min_time_in_intersection
           /\ tick_log' = u.tick_log
    /\ UNCHANGED <<next_id, op>>

Next ==
    \/ \E dir \in Direction, route \in Route : spawn_vehicle(dir, route)
    \/ update

Spec == Init /\ [][Next]_vars

-----------------------------------------------------------------------------
(* The engine on two lanes of one approach, with later spawns and a longer run: *)
(* vehicles queueing behind one another, and vehicles leaving the canvas        *)

MaxLaneVehicles == 3
MaxLaneTick == 250
\* the frames in which the host loop asks for a spawn
LaneSpawnTicks == {0, 14, 15, 30}
\* the direction asked for and the routes get_random_route draws
LaneKinds == {<<"South", "Straight">>, <<"South", "Right">>}

\* spawn_vehicle, leaving in op what was asked for and whether a vehicle was added
spawn_in_lane(dir, route) ==
    /\ next_id <= MaxLaneVehicles
    /\ current_time \in {t * FrameTime : t \in LaneSpawnTicks}
    /\ IF is_safe_to_spawn(active_vehicles, dir, route, get_spawn_position(dir, route))
       THEN /\ active_vehicles' = Append(active_vehicles,
                                         NewVehicle(next_id, route, dir,
                                                    get_spawn_position(dir, route),
                                                    get_turn_position(dir, route)))
            /\ next_id' = next_id + 1
            /\ op' = [kind |-> "spawn", direction |-> dir, route |-> route, accepted |-> TRUE]
       ELSE /\ UNCHANGED <<active_vehicles, next_id>>
            /\ op' = [kind |-> "spawn", direction |-> dir, route |-> route, accepted |-> FALSE]
    /\ UNCHANGED <<grid, current_time, total_vehicles_passed, max_velocity_recorded,
                   min_velocity_recorded, max_time_in_intersection,
                   min_time_in_intersection, close_calls, close_call_pairs_this_frame,
                   vehicle_intersection_times, tick_log>>

\* one frame of the host loop, as update, up to MaxLaneTick frames
update_in_lane ==
    /\ current_time < MaxLaneTick * FrameTime
    /\ \E u \in {update_result(active_vehicles, grid, close_calls,
                               close_call_pairs_this_frame, vehicle_intersection_times,
                               max_time_in_intersection, min_time_in_intersection,
                               max_velocity_recorded, min_velocity_recorded,
                               total_vehicles_passed, current_time + FrameTime)} :
           /\ current_time' = current_time + FrameTime
           /\ active_vehicles' = u.active_vehicles
           /\ grid' = u.grid
           /\ close_calls' = u.close_calls
           /\ close_call_pairs_this_frame' = u.close_call_pairs_this_frame
           /\ total_vehicles_passed' = u.total_vehicles_passed
           /\ max_velocity_recorded' = u.max_velocity_recorded
           /\ min_velocity_recorded' = u.min_velocity_recorded
           /\ vehicle_intersection_times' = u.vehicle_intersection_times
           /\ max_time_in_intersection' = u.max_time_in_intersection
           /\ min_time_in_intersection' = u.min_time_in_intersection
           /\ tick_log' = u.tick_log
    /\ op' = NoOp
    /\ UNCHANGED next_id

NextLane ==
    \/ \E k \in LaneKinds : spawn_in_lane(k[1], k[2])
    \/ update_in_lane

\* the clock step of a frame of the host loop: current_time += 1.0 / 60.0
frame_due ==
    /\ current_time < MaxLaneTick * FrameTime
    /\ current_time' = current_time + FrameTime

\* the host loop runs frame after frame and calls update in each, so a frame that is
\* due is simulated; update is the one action that moves the clock
SpecLane == Init /\ [][NextLane]_vars /\ WF_current_time(frame_due)

-----------------------------------------------------------------------------
(* The engine over whole journeys: vehicles of any of the 12 kinds spawned in the *)
(* first frame and simulated until they have left the canvas                     *)

MaxRunVehicles == 2
MaxRunTick == 230

\* spawn_vehicle in the first frame, leaving in op what was asked for and whether a
\* vehicle was added
spawn_at_start(dir, route) ==
    /\ next_id <= MaxRunVehicles
    /\ current_time = 0
    /\ IF is_safe_to_spawn(active_vehicles, dir, route, get_spawn_position(dir, route))
       THEN /\ active_vehicles' = Append(active_vehicles,
                                         NewVehicle(next_id, route, dir,
                                                    get_spawn_position(dir, route),
                                                    get_turn_position(dir, route)))
            /\ next_id' = next_id + 1
            /\ op' = [kind |-> "spawn", direction |-> dir, route |-> route, accepted |-> TRUE]
       ELSE /\ UNCHANGED <<active_vehicles, next_id>>
            /\ op' = [kind |-> "spawn", direction |-> dir, route |-> route, accepted |-> FALSE]
    /\ UNCHANGED <<grid, current_time, total_vehicles_passed, max_velocity_recorded,
                   min_velocity_recorded, max_time_in_intersection,
                   min_time_in_intersection, close_calls, close_call_pairs_this_frame,
                   vehicle_intersection_times, tick_log>>

\* one frame of the host loop, as update, up to MaxRunTick frames
update_in_run ==
    /\ current_time < MaxRunTick * FrameTime
    /\ \E u \in {update_result(active_vehicles, grid, close_calls,
                               close_call_pairs_this_frame, vehicle_intersection_times,
                               max_time_in_intersection, min_time_in_intersection,
                               max_velocity_recorded, min_velocity_recorded,
                               total_vehicles_passed, current_time + FrameTime)} :
           /\ current_time' = current_time + FrameTime
           /\ active_vehicles' = u.active_vehicles
           /\ grid' = u.grid
           /\ close_calls' = u.close_calls
           /\ close_call_pairs_this_frame' = u.close_call_pairs_this_frame
           /\ total_vehicles_passed' = u.total_vehicles_passed
           /\ max_velocity_recorded' = u.max_velocity_recorded
           /\ min_velocity_recorded' = u.min_velocity_recorded
           /\ vehicle_intersection_times' = u.vehicle_intersection_times
           /\ max_time_in_intersection' = u.max_time_in_intersection
           /\ min_time_in_intersection' = u.min_time_in_intersection
           /\ tick_log' = u.tick_log
    /\ op' = NoOp
    /\ UNCHANGED next_id

NextRun ==
    \/ \E dir \in Direction, route \in Route : spawn_at_start(dir, route)
    \/ update_in_run

\* a frame that is due is simulated, as in SpecLane
run_frame_due ==
    /\ current_time < MaxRunTick * FrameTime
    /\ current_time' = current_time + FrameTime

SpecRun == Init /\ [][NextRun]_vars /\ WF_current_time(run_frame_due)

-----------------------------------------------------------------------------
(* The engine with a second vehicle spawned a few frames after the first: vehicles *)
(* of different approaches that reach the negotiation distance in the same frame   *)

MaxTieVehicles == 2
MaxTieTick == 48
\* the frames in which a key press spawns a vehicle
TieSpawnTicks == {0, 3}

\* spawn_vehicle, leaving in op what was asked for and whether a vehicle was added
spawn_in_tie(dir, route) ==
    /\ next_id <= MaxTieVehicles
    /\ current_time \in {t * FrameTime : t \in TieSpawnTicks}
    /\ IF is_safe_to_spawn(active_vehicles, dir, route, get_spawn_position(dir, route))
       THEN /\ active_vehicles' = Append(active_vehicles,
                                         NewVehicle(next_id, route, dir,
                                                    get_spawn_position(dir, route),
                                                    get_turn_position(dir, route)))
            /\ next_id' = next_id + 1
            /\ op' = [kind |-> "spawn", direction |-> dir, route |-> route, accepted |-> TRUE]
       ELSE /\ UNCHANGED <<active_vehicles, next_id>>
            /\ op' = [kind |-> "spawn", direction |-> dir, route |-> route, accepted |-> FALSE]
    /\ UNCHANGED <<grid, current_time, total_vehicles_passed, max_velocity_recorded,
                   min_velocity_recorded, max_time_in_intersection,
                   min_time_in_intersection, close_calls, close_call_pairs_this_frame,
                   vehicle_intersection_times, tick_log>>

\* one frame of the host loop, as update, up to MaxTieTick frames
update_in_tie ==
    /\ current_time < MaxTieTick * FrameTime
    /\ \E u \in {update_result(active_vehicles, grid, close_calls,
                               close_call_pairs_this_frame, vehicle_intersection_times,
                               max_time_in_intersection, min_time_in_intersection,
                               max_velocity_recorded, min_velocity_recorded,
                               total_vehicles_passed, current_time + FrameTime)} :
           /\ current_time' = current_time + FrameTime
           /\ active_vehicles' = u.active_vehicles
           /\ grid' = u.grid
           /\ close_calls' = u.close_calls
           /\ close_call_pairs_this_frame' = u.close_call_pairs_this_frame
           /\ total_vehicles_passed' = u.total_vehicles_passed
           /\ max_velocity_recorded' = u.max_velocity_recorded
           /\ min_velocity_recorded' = u.min_velocity_recorded
           /\ vehicle_intersection_times' = u.vehicle_intersection_times
           /\ max_time_in_intersection' = u.max_time_in_intersection
           /\ min_time_in_intersection' = u.min_time_in_intersection
           /\ tick_log' = u.tick_log
    /\ op' = NoOp
    /\ UNCHANGED next_id

NextTie ==
    \/ \E dir \in Direction, route \in Route : spawn_in_tie(dir, route)
    \/ update_in_tie

SpecTie == Init /\ [][NextTie]_vars

-----------------------------------------------------------------------------
(* The grid primitives on their own: can_reserve_cells, reserve_cells_for_vehicle *)
(* and release_specific_cells applied to arbitrary cell lists, windows and ids    *)

\* two cells of the grid, one column index past the grid, one row index past it
GridCells == {<<0, 0>>, <<1, 0>>, <<cols, 0>>, <<0, rows>>}
\* the cell lists of at most two entries
CellLists == UNION {[1..n -> GridCells] : n \in {0, 1, 2}}
\* <<start, end>>: <<0, 2>> and <<1, 3>> overlap, <<0, 2>> and <<2, 4>> touch
Windows == {<<0, 2>>, <<1, 3>>, <<2, 4>>}
AgentIds == {1, 2}

RECURSIVE sum_lengths(_, _)
sum_lengths(g, idxs) ==
    IF idxs = {} THEN 0
    ELSE LET i == CHOOSE x \in idxs : TRUE
         IN  Len(g[i]) + sum_lengths(g, idxs \ {i})

\* the number of slots the grid holds
total_slots(g) == sum_lengths(g, DOMAIN g)

UnchangedEngine ==
    UNCHANGED <<active_vehicles, next_id, current_time, total_vehicles_passed,
                max_velocity_recorded, min_velocity_recorded, max_time_in_intersection,
                min_time_in_intersection, close_calls, close_call_pairs_this_frame,
                vehicle_intersection_times, tick_log>>

\* op records the call just made: its arguments, what it returned, and by how many
\* slots it changed the grid
grid_can_reserve(cells, w) ==
    /\ op' = [kind |-> "can_reserve", cells |-> cells, start |-> w[1], end |-> w[2],
              vehicle_id |-> 0, result |-> can_reserve_cells(grid, cells, w[1], w[2]),
              changed |-> 0]
    /\ UNCHANGED grid
    /\ UnchangedEngine

grid_reserve(vehicle_id, cells, w) ==
    /\ total_slots(grid) + Len(cells) <= MaxGridSlots
    /\ \E g \in {reserve_cells_for_vehicle(grid, vehicle_id, cells, w[1], w[2])} :
           /\ grid' = g
           /\ op' = [kind |-> "reserve", cells |-> cells, start |-> w[1], end |-> w[2],
                     vehicle_id |-> vehicle_id, result |-> TRUE,
                     changed |-> total_slots(g) - total_slots(grid)]
    /\ UnchangedEngine

grid_release(cells, vehicle_id) ==
    /\ \E g \in {release_specific_cells(grid, cells, vehicle_id)} :
           /\ grid' = g
           /\ op' = [kind |-> "release", cells |-> cells, start |-> 0, end |-> 0,
                     vehicle_id |-> vehicle_id, result |-> TRUE,
                     changed |-> total_slots(grid) - total_slots(g)]
    /\ UnchangedEngine

NextGrid ==
    \/ \E cells \in CellLists, w \in Windows : grid_can_reserve(cells, w)
    \/ \E id \in AgentIds, cells \in CellLists, w \in Windows : grid_reserve(id, cells, w)
    \/ \E cells \in CellLists, id \in AgentIds : grid_release(cells, id)

SpecGrid == Init /\ [][NextGrid]_vars

-----------------------------------------------------------------------------
(* Properties of the engine (Spec) *)

SlotsOverlap(a, b) == a.start < b.end /\ b.start < a.end

\* C1: in every reachable state, two reservations of one cell held by different
\* agents have half-open windows [start, end) that do not overlap.
C1_NoOverlap ==
    \A idx \in DOMAIN grid :
        \A i, j \in 1..Len(grid[idx]) :
            grid[idx][i].vehicle_id # grid[idx][j].vehicle_id =>
                ~SlotsOverlap(grid[idx][i], grid[idx][j])

\* a cell reserved by two agents
C1_Witness ==
    \E idx \in DOMAIN grid :
        \E i, j \in 1..Len(grid[idx]) : grid[idx][i].vehicle_id # grid[idx][j].vehicle_id

\* the footprints (x, y, w, h) share interior points
FootprintsIntersect(a, b) ==
    /\ a[1] < b[1] + b[3] /\ b[1] < a[1] + a[3]
    /\ a[2] < b[2] + b[4] /\ b[2] < a[2] + a[4]

\* C2: after every tick, no two live vehicles whose footprints both overlap the zone
\* have footprints that intersect each other.
C2_CollisionFree ==
    \A i, j \in 1..Len(active_vehicles) :
        (i < j /\ is_in_intersection(active_vehicles[i]) /\ is_in_intersection(active_vehicles[j])) =>
            ~FootprintsIntersect(get_visual_bounds(active_vehicles[i]),
                                 get_visual_bounds(active_vehicles[j]))

\* the negotiations of the last tick
Requests == {tick_log[k].request[1] : k \in {j \in 1..Len(tick_log) : tick_log[j].request # <<>>}}
RequestPath(q) == path_cache[<<q.direction, q.route>>]
CountIn(cells, idx) ==
    Cardinality({k \in 1..Len(cells) : cell_index(cells[k][1], cells[k][2]) = idx})
Segment2Cells(path) == IF path.segment2 = <<>> THEN <<>> ELSE path.segment2[1].cells

\* the grid after is the grid before with, in every cell of segment 1, one
\* reservation [s1, e1) of id and, in every cell of segment 2, one reservation [e1, e2)
BookedBoth(before, after, id, path, s1, e1, e2) ==
    \A idx \in DOMAIN before \cup DOMAIN after :
        cell_slots(after, idx) =
            cell_slots(before, idx)
            \o [n \in 1..CountIn(path.segment1.cells, idx) |->
                   [start |-> s1, end |-> e1, vehicle_id |-> id]]
            \o [n \in 1..CountIn(Segment2Cells(path), idx) |->
                   [start |-> e1, end |-> e2, vehicle_id |-> id]]

\* C3: a negotiation either books segment 1 and segment 2 of exactly one candidate
\* speed, the first admissible one, or leaves the grid as it was; a candidate whose
\* segment 1 is admissible and whose segment 2 is not leaves nothing in the grid.
C3_AdmissionAtomic ==
    \A q \in Requests :
        LET n == Len(q.tried) IN
        /\ \A k \in 1..(n - 1) : ~(q.tried[k].ok1 /\ q.tried[k].ok2)
        /\ IF q.permission
           THEN /\ n >= 1 /\ q.tried[n].ok1 /\ q.tried[n].ok2 /\ q.tried[n].speed = q.speed
                /\ BookedBoth(q.before, q.after, q.vehicle_id, RequestPath(q),
                              q.tried[n].segment1_entry, q.tried[n].segment1_exit,
                              q.tried[n].segment2_exit)
           ELSE q.after = q.before

\* a negotiation in which a candidate's segment 1 was admissible and its segment 2 not
C3_Witness ==
    \E q \in Requests : \E k \in 1..Len(q.tried) : q.tried[k].ok1 /\ ~q.tried[k].ok2

VRank(s) == CASE s = "Stopped" -> 0 [] s = "Slow" -> 1 [] s = "Medium" -> 2 [] s = "Fast" -> 3
VMin(a, b) == IF VRank(a) <= VRank(b) THEN a ELSE b
LiveWithId(id) == {i \in 1..Len(active_vehicles) : active_vehicles[i].id = id}

\* C5: for a vehicle not past the zone the speed applied in a tick is the minimum of
\* the following-model speed and the intersection speed under
\* Stopped < Slow < Medium < Fast, for all 16 pairs of the two.
C5_SpeedCombination ==
    /\ \A t \in Velocity, i \in Velocity : final_speed(FALSE, t, i) = VMin(t, i)
    /\ \A k \in 1..Len(tick_log) :
           ~tick_log[k].is_past_intersection =>
               /\ tick_log[k].final_speed
                      = VMin(tick_log[k].traffic_speed, tick_log[k].intersection_speed)
               /\ \A i \in LiveWithId(tick_log[k].vehicle_id) :
                      active_vehicles[i].current_speed = tick_log[k].final_speed

\* a tick in which a vehicle short of the zone was slowed below Fast
C5_Witness ==
    \E k \in 1..Len(tick_log) :
        /\ ~tick_log[k].is_past_intersection
        /\ tick_log[k].final_speed # "Fast"
        /\ \E i \in LiveWithId(tick_log[k].vehicle_id) :
               active_vehicles[i].current_speed = tick_log[k].final_speed

\* C6: a vehicle whose distance to the zone at the start of a tick exceeds 150 has
\* both the requested flag and the permission flag false after the tick, whatever
\* they were before.
C6_FarReset ==
    \A k \in 1..Len(tick_log) :
        tick_log[k].distance > 150 =>
            /\ \A f \in BOOLEAN : ~far_reset(tick_log[k].distance, f)
            /\ ~tick_log[k].requested_intersection
            /\ ~tick_log[k].intersection_permission
            /\ \A i \in LiveWithId(tick_log[k].vehicle_id) :
                   /\ ~active_vehicles[i].requested_intersection
                   /\ ~active_vehicles[i].intersection_permission

\* a tick that a vehicle started more than 150 from the zone
C6_Witness ==
    \E k \in 1..Len(tick_log) :
        /\ tick_log[k].distance > 150
        /\ LiveWithId(tick_log[k].vehicle_id) # {}

\* the time to cover distance at ppf pixels per frame, sixty frames a second
TimeAt(distance, ppf) == (distance * FrameTime) \div ppf
\* whether both segments of q's path are free in q.before over the windows of ppf
AdmissibleAt(q, ppf) ==
    LET path == RequestPath(q)
        s1 == q.now + TimeAt(q.distance, ppf)
        e1 == s1 + TimeAt(path.segment1.distance, ppf)
    IN  /\ can_reserve_cells(q.before, path.segment1.cells, s1, e1)
        /\ path.segment2 # <<>> =>
               can_reserve_cells(q.before, path.segment2[1].cells, e1,
                                 e1 + TimeAt(path.segment2[1].distance, ppf))
SlowAdmission(q) ==
    /\ q.current_speed = "Fast"
    /\ ~AdmissibleAt(q, 7) /\ ~AdmissibleAt(q, 5) /\ AdmissibleAt(q, 3)

\* C10: a vehicle at Fast whose Fast and Medium candidates are refused and whose Slow
\* candidate is admissible is granted Slow, and the grid gains exactly segment 1 over
\* [now + d/(3*60), + len1/(3*60)) and, on a turning route, segment 2 from that end
\* for len2/(3*60).
C10_SlowAdmission ==
    \A q \in Requests :
        SlowAdmission(q) =>
            LET path == RequestPath(q)
                s1 == q.now + TimeAt(q.distance, 3)
                e1 == s1 + TimeAt(path.segment1.distance, 3)
                e2 == IF path.segment2 = <<>> THEN e1
                      ELSE e1 + TimeAt(path.segment2[1].distance, 3)
            IN  /\ q.permission
                /\ q.speed = "Slow"
                /\ BookedBoth(q.before, q.after, q.vehicle_id, path, s1, e1, e2)

\* a slow admission on a turning route
C10_Witness ==
    \E q \in Requests : SlowAdmission(q) /\ RequestPath(q).segment2 # <<>> /\ q.after # q.before

-----------------------------------------------------------------------------
(* Properties of the engine on the lanes (SpecLane) *)

\* a frame is being simulated
Ticking == current_time' # current_time
\* v is short of the zone, near enough to negotiate, and holds no grant
AtLineWithoutGrant(v) ==
    /\ ~is_past_intersection(v)
    /\ ~is_in_intersection(v)
    /\ distance_to_intersection(v) <= 60
    /\ ~v.intersection_permission
\* the speeds of the candidates a negotiation tried, in order
TriedSpeeds(q) == [k \in 1..Len(q.tried) |-> q.tried[k].speed]

\* C11: in every tick that a vehicle starts stopped short of the zone, within the
\* negotiation distance and without a grant, a negotiation is made for it, and that
\* negotiation tries the Fast candidate and no other; a granted vehicle is no longer
\* in that case, so this goes on tick after tick until the grant.
C11_StoppedRetriesFastOnly ==
    [][Ticking =>
          \A i \in 1..Len(active_vehicles) :
              (AtLineWithoutGrant(active_vehicles[i])
               /\ active_vehicles[i].current_speed = "Stopped") =>
                  /\ tick_log'[i].vehicle_id = active_vehicles[i].id
                  /\ tick_log'[i].request # <<>>
                  /\ tick_log'[i].request[1].now = current_time'
                  /\ TriedSpeeds(tick_log'[i].request[1]) = <<"Fast">>]_vars

\* a stopped vehicle negotiated again and was granted, having been refused before
C11_Witness ==
    \E q \in Requests :
        /\ q.current_speed = "Stopped"
        /\ TriedSpeeds(q) = <<"Fast">>
        /\ q.permission
        /\ \E k \in 1..Len(tick_log) :
               /\ tick_log[k].vehicle_id = q.vehicle_id
               /\ tick_log[k].requested_before /\ ~tick_log[k].permission_before

\* a reservation of a vehicle other than id, on one of the cells, overlaps [s, e)
HeldByOther(g, id, cells, s, e) ==
    \E idx \in in_bounds_indexes(cells) :
        \E k \in 1..Len(cell_slots(g, idx)) :
            /\ cell_slots(g, idx)[k].vehicle_id # id
            /\ cell_slots(g, idx)[k].start < e
            /\ s < cell_slots(g, idx)[k].end
\* a window of candidate a of negotiation q overlaps a reservation another vehicle
\* holds on a cell of q's path; on these lanes the paths of the two routes share no
\* cell, so the other vehicle is one that entered the same lane earlier
OverlapsLeader(q, a) ==
    \/ HeldByOther(q.before, q.vehicle_id, RequestPath(q).segment1.cells,
                   a.segment1_entry, a.segment1_exit)
    \/ HeldByOther(q.before, q.vehicle_id, Segment2Cells(RequestPath(q)),
                   a.segment1_exit, a.segment2_exit)
LeaderBlocks ==
    \A q \in Requests :
        \A k \in 1..Len(q.tried) :
            OverlapsLeader(q, q.tried[k]) => ~(q.tried[k].ok1 /\ q.tried[k].ok2)
Denied(id) == \E q \in Requests : q.vehicle_id = id /\ ~q.permission
Granted(id) == \E i \in LiveWithId(id) : active_vehicles[i].intersection_permission

\* C12: of two vehicles on the same lane, the trailing one is refused every candidate
\* whose window overlaps a reservation the leader still holds on a cell of the path,
\* so it is granted only a candidate that overlaps none; and a trailing vehicle that
\* was refused is granted in a later tick.
C12_LeaderFollower ==
    /\ []LeaderBlocks
    /\ \A id \in 1..MaxLaneVehicles : Denied(id) ~> Granted(id)

\* a trailing vehicle is refused while the leader, granted and on the same route, is
\* still on the canvas and holds an overlapping reservation on the path
C12_Witness ==
    \E q \in Requests :
        /\ ~q.permission
        /\ \E k \in 1..Len(q.tried) : OverlapsLeader(q, q.tried[k])
        /\ \E i \in 1..Len(active_vehicles) :
               /\ active_vehicles[i].id < q.vehicle_id
               /\ active_vehicles[i].route = q.route
               /\ active_vehicles[i].intersection_permission
               /\ \E idx \in in_bounds_indexes(RequestPath(q).segment1.cells) :
                      \E n \in 1..Len(cell_slots(q.before, idx)) :
                          cell_slots(q.before, idx)[n].vehicle_id = active_vehicles[i].id

\* the distance along the travel axis of direction between two positions
AxisGap(direction, p, q) ==
    IF direction \in {"North", "South"} THEN Abs(p[2] - q[2]) ELSE Abs(p[1] - q[1])
\* a live vehicle of that direction and route is closer than 100 to the spawn position
TooClose(vs, direction, route) ==
    \E i \in 1..Len(vs) :
        /\ vs[i].direction = direction
        /\ vs[i].route = route
        /\ AxisGap(direction, vs[i].position, get_spawn_position(direction, route)) < 100
\* a vehicle of the direction and route that has covered gap since it was spawned
VehicleAtGap(direction, route, gap) ==
    LET p == get_spawn_position(direction, route) IN
    NewVehicle(1, route, direction,
               CASE direction = "North" -> <<p[1], p[2] - gap>>
                 [] direction = "South" -> <<p[1], p[2] + gap>>
                 [] direction = "East" -> <<p[1] + gap, p[2]>>
                 [] direction = "West" -> <<p[1] - gap, p[2]>>,
               get_turn_position(direction, route))
SpawnGaps == 93..107

\* C13: a spawn for direction d and route r adds one vehicle, at the spawn position
\* of (d, r), if and only if no live vehicle of direction d and route r is closer
\* than 100 px along the travel axis to that position, and otherwise leaves the
\* vehicles as they are; against a single vehicle of (d, r) the spawn is refused at
\* every gap below 100 and allowed at 100 and above.
C13_SpawnClearance ==
    [][op'.kind = "spawn" =>
          /\ op'.accepted = ~TooClose(active_vehicles, op'.direction, op'.route)
          /\ IF op'.accepted
             THEN /\ Len(active_vehicles') = Len(active_vehicles) + 1
                  /\ SubSeq(active_vehicles', 1, Len(active_vehicles)) = active_vehicles
                  /\ active_vehicles'[Len(active_vehicles')].direction = op'.direction
                  /\ active_vehicles'[Len(active_vehicles')].route = op'.route
                  /\ active_vehicles'[Len(active_vehicles')].position
                         = get_spawn_position(op'.direction, op'.route)
             ELSE active_vehicles' = active_vehicles
          /\ \A gap \in SpawnGaps :
                 is_safe_to_spawn(<<VehicleAtGap(op'.direction, op'.route, gap)>>,
                                  op'.direction, op'.route,
                                  get_spawn_position(op'.direction, op'.route))
                     = (gap >= 100)]_vars

\* a spawn was refused for a vehicle of the same lane 98 px on, while a vehicle of
\* the other route is on the canvas
C13_Witness ==
    /\ op.kind = "spawn"
    /\ ~op.accepted
    /\ \E i \in 1..Len(active_vehicles) :
           /\ active_vehicles[i].direction = op.direction
           /\ active_vehicles[i].route = op.route
           /\ AxisGap(op.direction, active_vehicles[i].position,
                      get_spawn_position(op.direction, op.route)) = 98
    /\ \E i \in 1..Len(active_vehicles) : active_vehicles[i].route # op.route

-----------------------------------------------------------------------------
(* Further properties of the engine (SpecLane, Spec) *)

\* C14: a vehicle that is past the zone at the start of a tick is given Fast in that
\* tick, for every pair of following-model speed and intersection speed, and no
\* negotiation is made for it.
C14_PastZoneFast ==
    /\ \A t \in Velocity, i \in Velocity : final_speed(TRUE, t, i) = "Fast"
    /\ \A k \in 1..Len(tick_log) :
           tick_log[k].is_past_intersection =>
               /\ tick_log[k].final_speed = "Fast"
               /\ tick_log[k].request = <<>>
               /\ tick_log[k].requested_intersection = tick_log[k].requested_before
               /\ tick_log[k].intersection_permission = tick_log[k].permission_before
               /\ \A i \in LiveWithId(tick_log[k].vehicle_id) :
                      active_vehicles[i].current_speed = "Fast"

\* a vehicle started a tick past the zone and went on at Fast with another vehicle
\* ahead of it in its lane, less than 120 px on
C14_Witness ==
    \E k \in 1..Len(tick_log) :
        /\ tick_log[k].is_past_intersection
        /\ \E i \in LiveWithId(tick_log[k].vehicle_id) :
               /\ is_past_intersection(active_vehicles[i])
               /\ active_vehicles[i].current_speed = "Fast"
               /\ \E j \in 1..Len(active_vehicles) :
                      /\ is_ahead_of_me(active_vehicles[i], active_vehicles[j])
                      /\ distance_to_vehicle(active_vehicles[i], active_vehicles[j]) < 120

\* every candidate of negotiation q was refused
AllRefused(q) ==
    /\ Len(q.tried) >= 1
    /\ \A n \in 1..Len(q.tried) : ~(q.tried[n].ok1 /\ q.tried[n].ok2)
\* what try_two_path_intersection_request answered in negotiation q
Answer(q) == [permission |-> q.permission, speed |-> q.speed, grid |-> q.after, tried |-> q.tried]
NegotiationDistances == 0..60

\* C15: when every candidate of a negotiation is refused, the negotiation answers no
\* permission and leaves the grid as it was, the vehicle's permission flag is false
\* after the tick and the speed applied to it in that tick is Stopped, the vehicle
\* stays among the live vehicles, and both negotiating branches turn such an answer
\* into Stopped at every distance from 0 to 60.
C15_DenialStops ==
    \A k \in 1..Len(tick_log) :
        (tick_log[k].request # <<>> /\ AllRefused(tick_log[k].request[1])) =>
            /\ ~tick_log[k].request[1].permission
            /\ tick_log[k].request[1].after = tick_log[k].request[1].before
            /\ ~tick_log[k].intersection_permission
            /\ tick_log[k].intersection_speed = "Stopped"
            /\ tick_log[k].final_speed = "Stopped"
            /\ LiveWithId(tick_log[k].vehicle_id) # {}
            /\ \A i \in LiveWithId(tick_log[k].vehicle_id) :
                   /\ ~active_vehicles[i].intersection_permission
                   /\ active_vehicles[i].current_speed = "Stopped"
                   /\ \A d \in NegotiationDistances :
                          /\ approach_decision(grid, active_vehicles[i], current_time, d,
                                               Answer(tick_log[k].request[1])).speed = "Stopped"
                          /\ ~approach_decision(grid, active_vehicles[i], current_time, d,
                                                Answer(tick_log[k].request[1])).permission
                          /\ entrance_decision(grid, active_vehicles[i], current_time, d,
                                               Answer(tick_log[k].request[1])).speed = "Stopped"

\* a vehicle arriving at Fast had all three candidates refused
C15_Witness ==
    \E q \in Requests :
        /\ AllRefused(q)
        /\ q.current_speed = "Fast"
        /\ Len(q.tried) = 3
        /\ \E i \in LiveWithId(q.vehicle_id) : active_vehicles[i].current_speed = "Stopped"

\* the windows of candidate a are those of a vehicle at distance from the zone at now
WindowsFrom(a, path, now, distance) ==
    /\ a.segment1_entry = now + TimeAt(distance, pixels_per_frame(a.speed))
    /\ a.segment1_exit
           = a.segment1_entry + TimeAt(path.segment1.distance, pixels_per_frame(a.speed))
    /\ a.segment2_exit
           = IF path.segment2 = <<>> THEN a.segment1_exit
             ELSE a.segment1_exit
                  + TimeAt(path.segment2[1].distance, pixels_per_frame(a.speed))

\* C16: a vehicle refused in one tick that starts the next tick short of the zone and
\* within the negotiation distance negotiates again in that tick, and every candidate
\* of the new negotiation has its entry and exit times computed from the new current
\* time and the vehicle's distance at that tick; the flags the refusal left do not
\* keep it from negotiating.
C16_RetryNextTick ==
    [][Ticking =>
          \A i \in 1..Len(active_vehicles) :
              (Denied(active_vehicles[i].id) /\ AtLineWithoutGrant(active_vehicles[i])) =>
                  /\ tick_log'[i].vehicle_id = active_vehicles[i].id
                  /\ tick_log'[i].request # <<>>
                  /\ tick_log'[i].request[1].now = current_time'
                  /\ tick_log'[i].request[1].now = current_time + FrameTime
                  /\ tick_log'[i].request[1].distance
                         = distance_to_intersection(active_vehicles[i])
                  /\ Len(tick_log'[i].request[1].tried) >= 1
                  /\ \A n \in 1..Len(tick_log'[i].request[1].tried) :
                         WindowsFrom(tick_log'[i].request[1].tried[n],
                                     RequestPath(tick_log'[i].request[1]),
                                     current_time',
                                     distance_to_intersection(active_vehicles[i]))]_vars

\* a vehicle refused in the tick before was refused again, for windows that begin
\* after the new current time
C16_Witness ==
    \E k \in 1..Len(tick_log) :
        /\ tick_log[k].requested_before /\ ~tick_log[k].permission_before
        /\ tick_log[k].request # <<>>
        /\ ~tick_log[k].request[1].permission
        /\ tick_log[k].request[1].now = current_time
        /\ tick_log[k].request[1].tried[1].segment1_entry > current_time

\* the key a lookup for vehicle v is made with
CacheKey(v) == <<v.direction, v.route>>

\* C17: the path cache has an entry for each of the 12 (direction, route) pairs, and
\* in every reachable state the key of every live vehicle, turned or not, is in the
\* cache, so the negotiation and the trailing-edge release find their path: every
\* negotiation made tried at least one candidate and none took the lookup-miss
\* return.
C17_CacheComplete ==
    /\ DOMAIN path_cache = Direction \X Route
    /\ Cardinality(DOMAIN path_cache) = 12
    /\ \A i \in 1..Len(active_vehicles) : CacheKey(active_vehicles[i]) \in DOMAIN path_cache
    /\ \A q \in Requests :
           /\ <<q.direction, q.route>> \in DOMAIN path_cache
           /\ Len(q.tried) >= 1
           /\ ~(~q.permission /\ q.speed = "Slow")

\* a vehicle that has turned, and so has a new direction, is in the zone, where the
\* release looks its path up in every tick
C17_Witness ==
    \E k \in 1..Len(tick_log) :
        /\ tick_log[k].is_in_intersection
        /\ \E i \in LiveWithId(tick_log[k].vehicle_id) :
               /\ active_vehicles[i].has_turned
               /\ is_in_intersection(active_vehicles[i])
               /\ active_vehicles[i].route # "Straight"

\* the vehicles ahead of vs[i] in its lane
AheadOf(vs, i) == {j \in 1..Len(vs) : j # i /\ is_ahead_of_me(vs[i], vs[j])}
\* the least distance from vs[i] to a vehicle ahead
ClosestDistance(vs, i) ==
    CHOOSE c \in {distance_to_vehicle(vs[i], vs[j]) : j \in AheadOf(vs, i)} :
        \A j \in AheadOf(vs, i) : c <= distance_to_vehicle(vs[i], vs[j])
\* the safe following distance to a vehicle ahead at that distance
RequiredDistance(vs, i) ==
    get_safe_following_distance(
        vs[i], vs[CHOOSE j \in AheadOf(vs, i) :
                      distance_to_vehicle(vs[i], vs[j]) = ClosestDistance(vs, i)])
\* low below 0.7 * r, Medium from 0.7 * r to below 0.8 * r, Fast from there on
ThresholdSpeed(c, r, low) ==
    IF 10 * c < 7 * r THEN low
    ELSE IF 10 * c < 8 * r THEN "Medium"
    ELSE "Fast"
\* the traffic target speed those thresholds give vs[i]
ThresholdTarget(vs, i, low) ==
    IF AheadOf(vs, i) = {} THEN "Fast"
    ELSE ThresholdSpeed(ClosestDistance(vs, i), RequiredDistance(vs, i), low)
FollowingDistances == 0..130
RequiredDistances == {90, 120}
\* in every tick, the target speed of every vehicle not past the zone is the one the
\* thresholds give, and so is the speed of the threshold expression for every
\* distance up to 130 against the two required distances of the program
FollowsThresholds(low) ==
    Ticking =>
        /\ \A i \in 1..Len(active_vehicles) :
               ~is_past_intersection(active_vehicles[i]) =>
                   tick_log'[i].traffic_speed = ThresholdTarget(active_vehicles, i, low)
        /\ \A c \in FollowingDistances, r \in RequiredDistances :
               following_speed(c, r) = ThresholdSpeed(c, r, low)

\* C18 as stated: for a vehicle not past the zone whose closest vehicle ahead is at
\* distance c with required distance r, the traffic target speed is Slow when
\* c < 0.7 * r, Medium when 0.7 * r <= c < 0.8 * r, and Fast otherwise, also when no
\* vehicle is ahead.
C18_ThresholdsSlow == [][FollowsThresholds("Slow")]_vars

\* C18 amended: the same with Stopped, not Slow, when c < 0.7 * r.
C18_ThresholdsStopped == [][FollowsThresholds("Stopped")]_vars

\* a vehicle short of the zone was stopped by a vehicle ahead closer than 0.7 * r
C18_Witness ==
    \E k \in 1..Len(tick_log) :
        /\ ~tick_log[k].is_past_intersection
        /\ tick_log[k].traffic_speed = "Stopped"
        /\ tick_log[k].request = <<>>

\* other is further along v's direction of travel than v
FurtherAlong(v, other) ==
    CASE v.direction = "North" -> get_center(other)[2] < get_center(v)[2]
      [] v.direction = "South" -> get_center(other)[2] > get_center(v)[2]
      [] v.direction = "East" -> get_center(other)[1] > get_center(v)[1]
      [] v.direction = "West" -> get_center(other)[1] < get_center(v)[1]
\* A vehicle keeps the lateral coordinate of its spawn position until it turns, and
\* turns in the first frame that finds it within 25 px of its turn position, having
\* come there by a step of 3, 5 or 7 px; from then on it keeps the coordinate it had
\* along its old axis.  LaneStates holds a vehicle for every lateral coordinate a
\* vehicle of any of the 12 kinds can so have, before and after its turn.
TurnGaps == 300..700
StepsBack == {3, 5, 7}
TurnInstants(direction, route) ==
    {VehicleAtGap(direction, route, s) :
        s \in {t \in TurnGaps :
                  /\ near_turn_position(VehicleAtGap(direction, route, t))
                  /\ \E step \in StepsBack :
                         ~near_turn_position(VehicleAtGap(direction, route, t - step))}}
LaneStates ==
    {VehicleAtGap(k[1], k[2], 0) : k \in Direction \X Route}
    \cup UNION {{execute_turn(v) : v \in TurnInstants(k[1], k[2])} :
                   k \in Direction \X {"Right", "Left"}}

\* vehicles of different routes are never in the same lane; LaneStates does not depend
\* on the state, so the comparison is made before the first frame only
LanesApart ==
    /\ \A a, b \in LaneStates : is_in_same_lane(a, b) => a.route = b.route
    /\ \A k \in Direction \X {"Right", "Left"} : TurnInstants(k[1], k[2]) # {}

\* C19: a vehicle B is treated as ahead of a vehicle A only if B has A's direction
\* and A's route and is further along A's direction of travel: so it is for every two
\* live vehicles in every reachable state, and no two vehicles of different routes,
\* turned or not, can have lateral coordinates that put them in the same lane.
C19_AheadSameRoute ==
    /\ \A i, j \in 1..Len(active_vehicles) :
           (i # j /\ is_ahead_of_me(active_vehicles[i], active_vehicles[j])) =>
               /\ active_vehicles[j].direction = active_vehicles[i].direction
               /\ active_vehicles[j].route = active_vehicles[i].route
               /\ FurtherAlong(active_vehicles[i], active_vehicles[j])
    /\ current_time = 0 => LanesApart

\* a vehicle that has turned is ahead of a vehicle of the same route that has not,
\* while the two entered from different directions
C19_Witness ==
    \E i, j \in 1..Len(active_vehicles) :
        /\ is_ahead_of_me(active_vehicles[i], active_vehicles[j])
        /\ active_vehicles[j].has_turned
        /\ ~active_vehicles[i].has_turned
        /\ active_vehicles[i].route = active_vehicles[j].route

\* the ids of the vehicles update has removed: spawned and no longer live
Retired == {id \in 1..(next_id - 1) : LiveWithId(id) = {}}

\* C20: once a vehicle has been removed because it left the canvas, no cell of the
\* grid holds a reservation with that vehicle's id.
C20_RetiredHoldNothing ==
    \A idx \in DOMAIN grid :
        \A k \in 1..Len(grid[idx]) : grid[idx][k].vehicle_id \notin Retired

-----------------------------------------------------------------------------
(* Properties of whole journeys (SpecRun) *)

\* the direction a vehicle that entered heading direction leaves in
TurnTable(direction, route) ==
    IF route = "Right"
    THEN CASE direction = "North" -> "East" [] direction = "East" -> "South"
           [] direction = "South" -> "West" [] direction = "West" -> "North"
    ELSE IF route = "Left"
    THEN CASE direction = "North" -> "West" [] direction = "West" -> "South"
           [] direction = "South" -> "East" [] direction = "East" -> "North"
    ELSE direction
\* the direction a turning vehicle was spawned with: the one whose turn position it has
EntryDirection(v) == CHOOSE d \in Direction : get_turn_position(d, v.route) = v.turn_position
\* the vehicle with that id after the step, if it is still live
LiveNext(id) == {j \in 1..Len(active_vehicles') : active_vehicles'[j].id = id}
\* the vehicles the step removes
RemovedNow == {i \in 1..Len(active_vehicles) : LiveNext(active_vehicles[i].id) = {}}
TurnOnce ==
    \A i \in 1..Len(active_vehicles) :
        /\ \A j \in LiveNext(active_vehicles[i].id) :
               /\ active_vehicles[i].has_turned => active_vehicles'[j].has_turned
               /\ active_vehicles'[j].route = active_vehicles[i].route
               /\ IF active_vehicles[i].route # "Straight"
                     /\ ~active_vehicles[i].has_turned /\ active_vehicles'[j].has_turned
                  THEN active_vehicles'[j].direction
                           = TurnTable(active_vehicles[i].direction, active_vehicles[i].route)
                       /\ active_vehicles'[j].direction # active_vehicles[i].direction
                  ELSE active_vehicles'[j].direction = active_vehicles[i].direction
        /\ (i \in RemovedNow /\ active_vehicles[i].route # "Straight") =>
               active_vehicles[i].has_turned
\* every live vehicle heads the way its route, its entry and its flag say
HeadsByTable ==
    \A i \in 1..Len(active_vehicles) :
        active_vehicles[i].route # "Straight" =>
            active_vehicles[i].direction
                = IF active_vehicles[i].has_turned
                  THEN TurnTable(EntryDirection(active_vehicles[i]), active_vehicles[i].route)
                  ELSE EntryDirection(active_vehicles[i])

\* C21: the has_turned flag of a vehicle never goes back to false; a vehicle with a
\* Left or Right route changes direction in the step that sets the flag, to the table
\* value for its entry direction and route, and in no other step, and it has turned
\* by the time it is removed; a vehicle with a Straight route never changes direction.
C21_TurnOnce ==
    /\ []HeadsByTable
    /\ [][TurnOnce]_vars

\* a vehicle that turned left is past the zone, heading the way the table says, after
\* the other vehicle has been removed
C21_Witness ==
    /\ total_vehicles_passed >= 1
    /\ \E i \in 1..Len(active_vehicles) :
           /\ active_vehicles[i].route = "Left"
           /\ active_vehicles[i].has_turned
           /\ is_past_intersection(active_vehicles[i])
           /\ active_vehicles[i].direction
                  = TurnTable(EntryDirection(active_vehicles[i]), "Left")

-----------------------------------------------------------------------------
(* Close calls (Spec) *)

\* the unordered pairs of the ids of vs
IdPairs(vs) == {normalized_pair(vs[i].id, vs[j].id) : i, j \in 1..Len(vs)} \ {<<vs[i].id, vs[i].id>> : i \in 1..Len(vs)}
\* three vehicles standing in the middle of the zone with the ids given, each less
\* than 5 px from the other two on every axis
ThreeInZone(ids) ==
    <<[NewVehicle(ids[1], "Straight", "North", <<480, 465>>, <<0, 0>>) EXCEPT !.current_speed = "Stopped"],
      [NewVehicle(ids[2], "Straight", "East", <<481, 466>>, <<0, 0>>) EXCEPT !.current_speed = "Stopped"],
      [NewVehicle(ids[3], "Straight", "South", <<482, 467>>, <<0, 0>>) EXCEPT !.current_speed = "Stopped"]>>
\* the vehicle_updates that leave those vehicles standing
StandStill(vs) ==
    [i \in 1..Len(vs) |->
        [final_speed |-> "Stopped", requested_intersection |-> TRUE,
         intersection_permission |-> TRUE, cells_to_release |-> <<>>,
         vehicle_id |-> vs[i].id]]
IdOrders == {p \in [1..3 -> 1..3] : \A a, b \in 1..3 : a # b => p[a] # p[b]}
\* one apply phase over three vehicles in mutual close calls counts three
ThreeCountThree ==
    \A p \in IdOrders :
        /\ apply_updates(ThreeInZone(p), EmptyGrid, 0, {}, StandStill(ThreeInZone(p)), 1).close_calls = 3
        /\ apply_updates(ThreeInZone(p), EmptyGrid, 0, {}, StandStill(ThreeInZone(p)), 1).pairs
               = {<<1, 2>>, <<1, 3>>, <<2, 3>>}
CountedOncePerPair ==
    Ticking =>
        /\ close_calls' - close_calls
               = Cardinality(close_call_pairs_this_frame' \ close_call_pairs_this_frame)
        /\ close_call_pairs_this_frame \subseteq close_call_pairs_this_frame'
        /\ (close_call_pairs_this_frame' \ close_call_pairs_this_frame)
               \subseteq IdPairs(active_vehicles)
        /\ current_time = 0 => ThreeCountThree

\* C22: in one update the close-call counter grows by one for each unordered pair of
\* vehicles newly entered in the set of flagged pairs and by nothing else, so by at
\* most one for any pair, whichever of the two is processed first; with three
\* vehicles in mutual close calls, in any order of their ids, it grows by three.
C22_OncePerPairPerTick == [][CountedOncePerPair]_vars

\* a close call between the two live vehicles, both in the zone, has been counted once
C22_Witness ==
    /\ close_calls = 1
    /\ Len(active_vehicles) = 2
    /\ close_call_pairs_this_frame = IdPairs(active_vehicles)
    /\ \A i \in 1..2 : is_in_intersection(active_vehicles[i])

\* after the update the later processed of two live vehicles finds the other closer
\* than 5 px with both in the zone: the test its close-call pass has just made
InCloseCallAfter(i, j) ==
    /\ i < j
    /\ is_in_intersection(active_vehicles'[i])
    /\ is_in_intersection(active_vehicles'[j])
    /\ distance_to_vehicle(active_vehicles'[j], active_vehicles'[i]) < 5

\* C23: the set of flagged pairs is emptied at the start of every tick's close-call
\* pass, so a pair that is in a close call in a tick is counted in that tick, whether
\* or not it was counted in an earlier tick.
C23_CountedInEveryTick ==
    [][Ticking =>
          \A i, j \in 1..Len(active_vehicles') :
              InCloseCallAfter(i, j) =>
                  /\ close_calls' >= close_calls + 1
                  /\ normalized_pair(active_vehicles'[i].id, active_vehicles'[j].id)
                         \in close_call_pairs_this_frame']_vars

-----------------------------------------------------------------------------
(* Further properties of whole journeys (SpecRun) *)

\* vehicle i as the update of the step leaves it before the removal: at the speed the
\* tick gave it, moved by Vehicle::update
MovedInStep(i) ==
    vehicle_update([active_vehicles[i] EXCEPT !.current_speed = tick_log'[i].final_speed])
Accounted ==
    /\ total_vehicles_passed = Cardinality(Retired)
    /\ next_id - 1 = Len(active_vehicles) + total_vehicles_passed
    /\ \A i, j \in 1..Len(active_vehicles) :
           i # j => active_vehicles[i].id # active_vehicles[j].id
    /\ \A i \in 1..Len(active_vehicles) : ~is_outside_canvas(active_vehicles[i])
AccountedStep ==
    /\ total_vehicles_passed' >= total_vehicles_passed
    /\ total_vehicles_passed' - total_vehicles_passed = Cardinality(RemovedNow)
    /\ next_id' - next_id = IF op'.kind = "spawn" /\ op'.accepted THEN 1 ELSE 0
    /\ Ticking => \A i \in 1..Len(active_vehicles) :
                      (i \in RemovedNow) = is_outside_canvas(MovedInStep(i))

\* C24: in every state total_vehicles_passed is the number of vehicles removed so
\* far, the number of accepted spawns is the number of live vehicles plus
\* total_vehicles_passed, and no live vehicle is outside the canvas; in every step
\* total_vehicles_passed grows by the number of vehicles the step removes, which are
\* the vehicles the step moves outside the canvas, and never decreases.
C24_Throughput ==
    /\ []Accounted
    /\ [][AccountedStep]_vars

\* both vehicles of a run have been removed
C24_Witness ==
    /\ total_vehicles_passed = 2
    /\ next_id = 3
    /\ active_vehicles = <<>>

\* the reservations vehicle id holds in grid g, each with its cell
SlotsOf(g, id) ==
    UNION {{<<idx, g[idx][k]>> : k \in {n \in 1..Len(g[idx]) : g[idx][n].vehicle_id = id}} :
              idx \in DOMAIN g}
\* the entries of the last tick that made a negotiation, and those that made none
Negotiated == {k \in 1..Len(tick_log) : tick_log[k].request # <<>>}
NotNegotiated == {k \in 1..Len(tick_log) : tick_log[k].request = <<>>}
NegotiatedInGuard ==
    /\ \A k \in Negotiated :
           /\ ~tick_log[k].is_past_intersection
           /\ tick_log[k].distance <= 60
           /\ ~tick_log[k].is_in_intersection
           /\ ~(tick_log[k].requested_before /\ tick_log[k].permission_before)
           /\ tick_log[k].request[1].vehicle_id = tick_log[k].vehicle_id
    /\ \A k \in NotNegotiated :
           /\ tick_log[k].intersection_speed = "Fast"
           /\ tick_log[k].requested_intersection =
                  far_reset(tick_log[k].distance, tick_log[k].requested_before)
           /\ tick_log[k].intersection_permission =
                  far_reset(tick_log[k].distance, tick_log[k].permission_before)
\* a tick gives no new reservation to a vehicle it made no negotiation for
NoBookingWithoutNegotiation ==
    Ticking =>
        \A k \in 1..Len(tick_log') :
            tick_log'[k].request = <<>> =>
                SlotsOf(grid', tick_log'[k].vehicle_id) \subseteq
                    SlotsOf(grid, tick_log'[k].vehicle_id)

\* C25: in every tick a negotiation is made for a vehicle only when it is not past
\* the zone, its distance to the zone is at most 60, it is not in the zone and it
\* is not both requested and permitted; for every other vehicle the intersection
\* speed of the tick is Fast, its flags are those the far reset leaves, and the
\* tick adds no reservation of that vehicle to the grid.
C25_NegotiationGuard ==
    /\ []NegotiatedInGuard
    /\ [][NoBookingWithoutNegotiation]_vars

\* a tick in which one vehicle negotiated and was refused while the other, in the
\* zone with its grant, made no negotiation
C25_Witness ==
    /\ \E k \in Negotiated : ~tick_log[k].request[1].permission
    /\ \E k \in NotNegotiated :
           /\ tick_log[k].is_in_intersection
           /\ tick_log[k].requested_before /\ tick_log[k].permission_before

\* the candidates of a negotiation made at current speed s: from s downwards, Fast
\* alone for a stopped vehicle
CandidatesFrom(s) ==
    CASE s = "Fast" -> <<"Fast", "Medium", "Slow">>
      [] s = "Medium" -> <<"Medium", "Slow">>
      [] s = "Slow" -> <<"Slow">>
      [] s = "Stopped" -> <<"Fast">>
\* the candidates when every moving vehicle starts from Fast
CandidatesFromFast(s) ==
    IF s = "Stopped" THEN <<"Fast">> ELSE <<"Fast", "Medium", "Slow">>
\* the answer x tried the candidates of list in order, stopped at the first one with
\* both segments admissible and answered it, and was a refusal only after the last
TriedInOrder(x, list) ==
    /\ Len(x.tried) \in 1..Len(list)
    /\ \A k \in 1..Len(x.tried) : x.tried[k].speed = list[k]
    /\ \A k \in 1..(Len(x.tried) - 1) : ~(x.tried[k].ok1 /\ x.tried[k].ok2)
    /\ x.permission = (x.tried[Len(x.tried)].ok1 /\ x.tried[Len(x.tried)].ok2)
    /\ x.permission => x.speed = x.tried[Len(x.tried)].speed
    /\ ~x.permission => Len(x.tried) = Len(list)
\* the grid of a negotiation for kind in which another vehicle holds segment 1 of
\* the path over [0, end); end = 0 leaves the grid empty
GridHeldUntil(kind, end) ==
    IF end = 0 THEN EmptyGrid
    ELSE reserve_cells_for_vehicle(EmptyGrid, 2, path_cache[kind].segment1.cells, 0, end)
NegotiationKinds == {<<"South", "Straight">>, <<"West", "Left">>}
\* at 60 px the Fast, Medium and Slow windows open at 900, 1260 and 2100
HeldEnds == {0, 1000, 1500, 3000}
\* the answer for a vehicle of kind at 60 px, asked at time 0 with current speed s
AnswerAt60(kind, end, s) ==
    try_two_path_intersection_request(GridHeldUntil(kind, end), 1, kind[2], kind[1], s, 0, 60)
CommittedFirst(q) ==
    q.permission =>
        q.after = commit(q.before, q.vehicle_id, RequestPath(q), q.tried[Len(q.tried)])

\* C26 (as the code has it): a negotiation tries the candidates from the vehicle's
\* current speed downwards (Fast: Fast, Medium, Slow; Medium: Medium, Slow; Slow:
\* Slow; Stopped: Fast alone), in that order, stops at the first candidate for
\* which both segments are admissible, reserves both segments at its windows and
\* answers it, and refuses only after the last candidate.
C26_CandidatesFromCurrentSpeed ==
    /\ \A q \in Requests :
           TriedInOrder(q, CandidatesFrom(q.current_speed)) /\ CommittedFirst(q)
    /\ (current_time = 0 /\ next_id = 1) =>
           \A kind \in NegotiationKinds, end \in HeldEnds, s \in Velocity :
               TriedInOrder(AnswerAt60(kind, end, s), CandidatesFrom(s))

\* C26 (as stated): every negotiation for a moving vehicle tries Fast, then Medium,
\* then Slow; a negotiation for a stopped vehicle tries Fast alone.
C26_CandidatesFromFastAlways ==
    /\ \A q \in Requests :
           TriedInOrder(q, CandidatesFromFast(q.current_speed)) /\ CommittedFirst(q)
    /\ (current_time = 0 /\ next_id = 1) =>
           \A kind \in NegotiationKinds, end \in HeldEnds, s \in Velocity :
               TriedInOrder(AnswerAt60(kind, end, s), CandidatesFromFast(s))

\* a vehicle at Fast was refused at Fast and admitted at Medium
C26_Witness ==
    \E q \in Requests :
        /\ q.current_speed = "Fast"
        /\ TriedSpeeds(q) = <<"Fast", "Medium">>
        /\ q.permission /\ q.speed = "Medium"
        /\ q.after # q.before

\* the tick after a grant at Medium or Slow commands the vehicle, still short of the
\* far side of the zone, no faster than the speed it was granted at
SlowGrantKeptInNextTick ==
    Ticking =>
        \A q \in Requests :
            (q.permission /\ q.speed \in {"Medium", "Slow"}) =>
                \A k \in 1..Len(tick_log') :
                    (tick_log'[k].vehicle_id = q.vehicle_id
                     /\ ~tick_log'[k].is_past_intersection) =>
                        VRank(tick_log'[k].final_speed) <= VRank(q.speed)

\* C27: a vehicle granted admission at Medium or Slow is commanded no faster than
\* the granted speed in the ticks after the grant, as long as it has not left the
\* zone; stated here for the first tick after the grant, which every later tick
\* of the claim includes.
C27_GrantedSpeedKept == [][SlowGrantKeptInNextTick]_vars

\* every live vehicle in the zone holds its grant
InZoneWithGrant ==
    \A i \in 1..Len(active_vehicles) :
        is_in_intersection(active_vehicles[i]) =>
            /\ active_vehicles[i].requested_intersection
            /\ active_vehicles[i].intersection_permission
\* the last tick found no vehicle in or past the zone further than 150 from it, and
\* left the flags of such a vehicle as they were
NoResetInOrPastZone ==
    \A k \in 1..Len(tick_log) :
        (tick_log[k].is_in_intersection \/ tick_log[k].is_past_intersection) =>
            /\ tick_log[k].distance <= 150
            /\ tick_log[k].request = <<>>
            /\ tick_log[k].requested_intersection = tick_log[k].requested_before
            /\ tick_log[k].intersection_permission = tick_log[k].permission_before

\* C28: in every state a vehicle in the zone has intersection_permission set, and
\* in every tick a vehicle in or past the zone, before or after its turn, is within
\* 150 of the zone by distance_to_intersection, so the far reset does not clear its
\* flags and the tick leaves them as they were.
C28_NoEntryWithoutGrant == InZoneWithGrant /\ NoResetInOrPastZone

\* a vehicle that has turned is in the zone with its grant while the other vehicle
\* is past the zone
C28_Witness ==
    /\ \E i \in 1..Len(active_vehicles) :
           /\ is_in_intersection(active_vehicles[i])
           /\ active_vehicles[i].has_turned
           /\ active_vehicles[i].intersection_permission
    /\ \E k \in 1..Len(tick_log) :
           tick_log[k].is_past_intersection /\ tick_log[k].permission_before

\* the direction vehicle v entered with, and the cells of the cached path of its kind
OwnDirection(v) == IF v.route = "Straight" THEN v.direction ELSE EntryDirection(v)
OwnPathCells(v) ==
    LET path == path_cache[<<OwnDirection(v), v.route>>]
    IN  {path.segment1.cells[n] : n \in 1..Len(path.segment1.cells)}
        \cup {Segment2Cells(path)[n] : n \in 1..Len(Segment2Cells(path))}
\* the cells the last tick passed to release for the vehicle of entry k
ReleasedCells(k) ==
    {tick_log[k].cells_to_release[n] : n \in 1..Len(tick_log[k].cells_to_release)}

\* C29: in every tick the cells passed to release_specific_cells for a vehicle are
\* cells of the cached path of the direction it entered with and its route, before
\* and after its turn.
C29_ReleasedCellsOnOwnPath ==
    \A k \in 1..Len(tick_log) :
        \A i \in LiveWithId(tick_log[k].vehicle_id) :
            ReleasedCells(k) \subseteq OwnPathCells(active_vehicles[i])

\* the grid cells the visual bounds of v overlap
FootprintCells(v) ==
    LET b == get_visual_bounds(v)
    IN  {c \in (0..(cols - 1)) \X (0..(rows - 1)) :
            /\ b[1] < IX_MIN + (c[1] + 1) * zone_px
            /\ IX_MIN + c[1] * zone_px < b[1] + b[3]
            /\ b[2] < IY_MIN + (c[2] + 1) * zone_px
            /\ IY_MIN + c[2] * zone_px < b[2] + b[4]}

\* C30: in every state, every grid cell the visual bounds of a live vehicle overlap
\* is a cell of segment 1 or segment 2 of the cached path of the direction it
\* entered with and its route.
C30_PathCoversFootprint ==
    \A i \in 1..Len(active_vehicles) :
        FootprintCells(active_vehicles[i]) \subseteq OwnPathCells(active_vehicles[i])

-----------------------------------------------------------------------------
(* The order of service (SpecTie) *)

\* vehicle owner holds a reservation overlapping [s, e) on one of cells in grid g
HeldBy(g, owner, cells, s, e) ==
    \E idx \in in_bounds_indexes(cells) :
        \E k \in 1..Len(cell_slots(g, idx)) :
            /\ cell_slots(g, idx)[k].vehicle_id = owner
            /\ cell_slots(g, idx)[k].start < e
            /\ s < cell_slots(g, idx)[k].end
\* a window of candidate a of negotiation q meets a reservation of owner in q.before
MeetsReservationOf(q, a, owner) ==
    \/ HeldBy(q.before, owner, RequestPath(q).segment1.cells, a.segment1_entry, a.segment1_exit)
    \/ HeldBy(q.before, owner, Segment2Cells(RequestPath(q)), a.segment1_exit, a.segment2_exit)
\* the live vehicles, and the entries of the last tick, are in the order of their ids
InSpawnOrder ==
    /\ \A i, j \in 1..Len(active_vehicles) :
           i < j => active_vehicles[i].id < active_vehicles[j].id
    /\ \A k1, k2 \in 1..Len(tick_log) :
           k1 < k2 => tick_log[k1].vehicle_id < tick_log[k2].vehicle_id
\* a negotiation starts from the grid the negotiation before it in the tick left
SeesEarlier ==
    \A k1, k2 \in Negotiated :
        (k1 < k2 /\ \A k \in Negotiated : ~(k1 < k /\ k < k2)) =>
            tick_log[k2].request[1].before = tick_log[k1].request[1].after
\* a candidate of a later negotiation that meets a reservation of a vehicle granted
\* earlier in the tick is refused
EarlierWins ==
    \A k1, k2 \in Negotiated :
        (k1 < k2 /\ tick_log[k1].request[1].permission) =>
            \A n \in 1..Len(tick_log[k2].request[1].tried) :
                MeetsReservationOf(tick_log[k2].request[1], tick_log[k2].request[1].tried[n],
                                   tick_log[k1].vehicle_id)
                    => ~(tick_log[k2].request[1].tried[n].ok1
                         /\ tick_log[k2].request[1].tried[n].ok2)
\* the first negotiation of a tick starts from the grid the tick started with, and
\* the entries of the tick are those of the vehicles live at its start, in order
FirstFromStart ==
    Ticking =>
        /\ Len(tick_log') = Len(active_vehicles)
        /\ \A k \in 1..Len(tick_log') : tick_log'[k].vehicle_id = active_vehicles[k].id
        /\ \A k \in 1..Len(tick_log') :
               (tick_log'[k].request # <<>>
                /\ \A j \in 1..(k - 1) : tick_log'[j].request = <<>>) =>
                   tick_log'[k].request[1].before = grid

\* C31: the live vehicles are always in the order of their ids, the order they were
\* spawned in; the negotiations of a tick are made in that order, the first on the
\* grid the tick started with and each later one on the grid the one before it left;
\* and a candidate of a later vehicle whose window meets, on a cell of its path, a
\* reservation made for an earlier vehicle in the same tick is refused.
C31_SpawnOrderServed ==
    /\ [](InSpawnOrder /\ SeesEarlier /\ EarlierWins)
    /\ [][FirstFromStart]_vars

\* two vehicles negotiate in one tick on an empty grid: the earlier one is granted
\* Fast, and the later one is refused at Fast by the reservation just made
C31_Witness ==
    \E k1, k2 \in Negotiated :
        /\ k1 < k2
        /\ tick_log[k1].request[1].before = EmptyGrid
        /\ tick_log[k1].request[1].permission
        /\ tick_log[k1].request[1].speed = "Fast"
        /\ MeetsReservationOf(tick_log[k2].request[1], tick_log[k2].request[1].tried[1],
                              tick_log[k1].vehicle_id)
        /\ ~tick_log[k2].request[1].tried[1].ok1

-----------------------------------------------------------------------------
(* The phases of a tick (SpecLane, Spec) *)

\* entry k of the tick being taken was computed from the vehicles as they are at its
\* start: what it read of its own vehicle, the target speed of the following model
\* over all vehicles, and what its negotiation was called with
DecidedFromStart(k) ==
    /\ tick_log'[k].vehicle_id = active_vehicles[k].id
    /\ tick_log'[k].distance = distance_to_intersection(active_vehicles[k])
    /\ tick_log'[k].is_past_intersection = is_past_intersection(active_vehicles[k])
    /\ tick_log'[k].is_in_intersection = is_in_intersection(active_vehicles[k])
    /\ tick_log'[k].requested_before = active_vehicles[k].requested_intersection
    /\ tick_log'[k].permission_before = active_vehicles[k].intersection_permission
    /\ tick_log'[k].traffic_speed = traffic_target_speed(active_vehicles, k)
    /\ tick_log'[k].request # <<>> =>
           /\ tick_log'[k].request[1].direction = active_vehicles[k].direction
           /\ tick_log'[k].request[1].route = active_vehicles[k].route
           /\ tick_log'[k].request[1].distance = distance_to_intersection(active_vehicles[k])
           /\ tick_log'[k].request[1].current_speed
                  \in {active_vehicles[k].current_speed, "Fast"}
AllDecidedFromStart ==
    Ticking =>
        /\ Len(tick_log') = Len(active_vehicles)
        /\ \A k \in 1..Len(active_vehicles) : DecidedFromStart(k)

\* C32: in every tick the following-model speed and the admission decision of every
\* vehicle are computed from the positions, directions and flags all vehicles had
\* when the tick started, whatever the vehicles before it in the list do in the
\* tick.
C32_TwoPhaseTick == [][AllDecidedFromStart]_vars

\* the last tick slowed a follower down behind a leader that moved in the same
\* tick, and made a negotiation for another vehicle
C32_Witness ==
    /\ \E k1, k2 \in 1..Len(tick_log) :
           /\ k1 < k2
           /\ tick_log[k1].final_speed # "Stopped"
           /\ tick_log[k2].traffic_speed \in {"Medium", "Stopped"}
    /\ Negotiated # {}

\* the cells a tick passes to release for a vehicle are those computed from the
\* vehicle where the tick's movement leaves it
ReleasedFromMoved ==
    Ticking =>
        \A k \in 1..Len(tick_log') :
            \A j \in LiveNext(tick_log'[k].vehicle_id) :
                tick_log'[k].cells_to_release = cells_to_release(active_vehicles'[j])
\* the pairs a tick flags are pairs of vehicles that, where the tick's movement
\* leaves them, are both in the zone and closer than 5 to each other
FlaggedOnMoved ==
    Ticking =>
        \A p \in close_call_pairs_this_frame' \ close_call_pairs_this_frame :
            \A i \in LiveNext(p[1]), j \in LiveNext(p[2]) :
                /\ is_in_intersection(active_vehicles'[i])
                /\ is_in_intersection(active_vehicles'[j])
                /\ distance_to_vehicle(active_vehicles'[i], active_vehicles'[j]) < 5

\* C33: in every tick the cells released behind a vehicle are computed from its
\* position after the movement of the tick, and a close-call check compares two
\* vehicles that have both been moved in the tick.
C33_ObservedAfterMovement == [][ReleasedFromMoved /\ FlaggedOnMoved]_vars

-----------------------------------------------------------------------------
(* Progress (SpecLane) *)

\* vehicle id is live and the last tick did not move it
Waiting(id) ==
    \E i \in LiveWithId(id) : active_vehicles[i].current_speed = "Stopped"
Moving(id) ==
    \E i \in LiveWithId(id) : active_vehicles[i].current_speed # "Stopped"

\* C34: once no more vehicle is spawned, every live vehicle is eventually removed;
\* a vehicle stopped at the entrance of the zone or behind another vehicle
\* eventually moves again, and a vehicle that was refused is eventually granted.
C34_EveryVehicleLeaves ==
    \A id \in 1..MaxLaneVehicles :
        /\ (LiveWithId(id) # {}) ~> (id \in Retired)
        /\ Waiting(id) ~> Moving(id)
        /\ Denied(id) ~> (Granted(id) \/ id \in Retired)

\* the three vehicles of a queue have all been removed, the last one after it had
\* waited
C34_Witness ==
    /\ total_vehicles_passed = MaxLaneVehicles
    /\ active_vehicles = <<>>
    /\ current_time > 240 * FrameTime

-----------------------------------------------------------------------------
(* One grant per vehicle (SpecRun) *)

\* a vehicle without the permission flag holds no reservation
UngrantedHoldNothing ==
    \A i \in 1..Len(active_vehicles) :
        ~active_vehicles[i].intersection_permission =>
            SlotsOf(grid, active_vehicles[i].id) = {}
\* a tick makes no negotiation for a vehicle that has the permission flag, leaves
\* the flag set, and adds no reservation for it; the vehicles it adds reservations
\* for are granted in it and held none before
GrantedOnce ==
    Ticking =>
        \A i \in 1..Len(active_vehicles) :
            /\ active_vehicles[i].intersection_permission =>
                   /\ tick_log'[i].request = <<>>
                   /\ tick_log'[i].intersection_permission
                   /\ SlotsOf(grid', active_vehicles[i].id)
                          \subseteq SlotsOf(grid, active_vehicles[i].id)
            /\ ~(SlotsOf(grid', active_vehicles[i].id)
                     \subseteq SlotsOf(grid, active_vehicles[i].id)) =>
                   /\ SlotsOf(grid, active_vehicles[i].id) = {}
                   /\ tick_log'[i].request # <<>>
                   /\ tick_log'[i].request[1].permission

\* C35: a vehicle is granted admission in at most one tick of its life: once its
\* permission flag is set it stays set and no negotiation is made for it again, so
\* reservations are added for a vehicle only in the tick of its grant, when it
\* holds none and has held none.
C35_GrantedOnce ==
    /\ []UngrantedHoldNothing
    /\ [][GrantedOnce]_vars

\* after the other vehicle was removed, a vehicle that has turned is past the zone
\* with the flag still set and reservations still in the grid
C35_Witness ==
    \E i \in 1..Len(active_vehicles) :
        /\ is_past_intersection(active_vehicles[i])
        /\ active_vehicles[i].has_turned
        /\ active_vehicles[i].intersection_permission
        /\ SlotsOf(grid, active_vehicles[i].id) # {}
        /\ total_vehicles_passed = 1

-----------------------------------------------------------------------------
(* The movement step (Spec) *)

\* the pixels of one tick at each commanded speed
CommandedPixels(speed) ==
    CASE speed = "Stopped" -> 0
      [] speed = "Slow" -> 3
      [] speed = "Medium" -> 5
      [] speed = "Fast" -> 7
\* the displacement of one tick at that speed for a vehicle heading in that direction
StepAlong(direction, speed) ==
    CASE direction = "North" -> <<0, 0 - CommandedPixels(speed)>>
      [] direction = "South" -> <<0, CommandedPixels(speed)>>
      [] direction = "East" -> <<CommandedPixels(speed), 0>>
      [] direction = "West" -> <<0 - CommandedPixels(speed), 0>>
\* every vehicle that is live after a tick was displaced by the step of its commanded
\* speed along the direction it has after the tick
MovedAsCommanded ==
    Ticking =>
        \A i \in 1..Len(active_vehicles) :
            \A j \in LiveNext(active_vehicles[i].id) :
                /\ active_vehicles'[j].current_speed = tick_log'[i].final_speed
                /\ active_vehicles'[j].position[1] - active_vehicles[i].position[1]
                       = StepAlong(active_vehicles'[j].direction, tick_log'[i].final_speed)[1]
                /\ active_vehicles'[j].position[2] - active_vehicles[i].position[2]
                       = StepAlong(active_vehicles'[j].direction, tick_log'[i].final_speed)[2]
\* a step that is not a tick moves no vehicle
StillBetweenTicks ==
    ~Ticking =>
        \A i \in 1..Len(active_vehicles) :
            \A j \in LiveNext(active_vehicles[i].id) :
                active_vehicles'[j].position = active_vehicles[i].position
\* the entry of the last tick for the vehicle with that id
LoggedFor(id) == {k \in 1..Len(tick_log) : tick_log[k].vehicle_id = id}
\* the vehicle at index j has turned and has only advanced along its new direction since:
\* it has left the lane it was spawned in by whole steps of 7 px on the axis and to the
\* side of its new direction
AdvancedAfterTurn(j) ==
    LET v == active_vehicles[j]
        from == get_spawn_position(EntryDirection(v), v.route)
        off == IF v.direction \in {"East", "West"}
               THEN v.position[1] - from[1]
               ELSE v.position[2] - from[2]
        ahead == IF v.direction \in {"East", "South"} THEN off ELSE 0 - off
    IN /\ v.route # "Straight"
       /\ v.has_turned
       /\ v.direction = TurnTable(EntryDirection(v), v.route)
       /\ ahead > 0
       /\ ahead % CommandedPixels("Fast") = 0
\* the vehicle at index j was commanded that speed in the last tick and is where the step of
\* that speed puts it: its distance to the zone fell by the pixels of the speed
SteppedAt(j, speed) ==
    LET v == active_vehicles[j] IN
    /\ ~v.has_turned
    /\ \E k \in LoggedFor(v.id) :
           /\ tick_log[k].final_speed = speed
           /\ tick_log[k].distance - distance_to_intersection(v) = CommandedPixels(speed)

(* C36: in the apply phase of a tick a vehicle commanded Stopped keeps its position, and a
   vehicle commanded Slow, Medium or Fast advances exactly 3, 5 or 7 px along the axis of
   its direction and not at all along the other axis; in the tick of its turn it advances
   along the new direction. No other step moves a vehicle. *)
C36_MovementStep == [][MovedAsCommanded /\ StillBetweenTicks]_vars
\* a tick after which one vehicle has turned and advanced along its new direction while
\* the other vehicle, commanded Stopped, stayed where it was
C36_Witness ==
    /\ op = NoOp
    /\ current_time > 0
    /\ \E j \in 1..Len(active_vehicles) : AdvancedAfterTurn(j)
    /\ \E j \in 1..Len(active_vehicles) : SteppedAt(j, "Stopped")

-----------------------------------------------------------------------------
(* Dwell time (SpecRun) *)

\* the live vehicles whose footprint overlaps the zone
Overlapping ==
    {active_vehicles[i].id : i \in {j \in 1..Len(active_vehicles) :
                                       is_in_intersection(active_vehicles[j])}}
\* the table of entry times holds the overlapping vehicles and no other
TableOfOverlapping == DOMAIN vehicle_intersection_times = Overlapping
\* an entry is made with the time of the tick that first leaves the vehicle overlapping the
\* zone, and is kept as it is until it is dropped
EntryAtFirstOverlap ==
    \A id \in DOMAIN vehicle_intersection_times' :
        IF id \in DOMAIN vehicle_intersection_times
        THEN vehicle_intersection_times'[id] = vehicle_intersection_times[id]
        ELSE Ticking /\ vehicle_intersection_times'[id] = current_time'
\* a vehicle whose entry was dropped never overlaps the zone again
NoSecondOverlap ==
    \A id \in DOMAIN vehicle_intersection_times' :
        id \in DOMAIN vehicle_intersection_times
            \/ \A i \in LiveWithId(id) : ~is_past_intersection(active_vehicles[i])
\* the vehicles whose dwell the step folds into the extremes: they overlapped the zone after
\* the last tick, are live after this one and overlap it no longer
FoldedNow ==
    {id \in DOMAIN vehicle_intersection_times :
        LiveNext(id) # {} /\ id \notin DOMAIN vehicle_intersection_times'}
\* the extremes after the step are those before it, widened by the dwell of every vehicle
\* folded, the dwell of a vehicle measured from its entry until the time until
DwellFoldedUntil(until) ==
    LET durations == {until - vehicle_intersection_times[id] : id \in FoldedNow} IN
    IF durations = {}
    THEN /\ max_time_in_intersection' = max_time_in_intersection
         /\ min_time_in_intersection' = min_time_in_intersection
    ELSE /\ max_time_in_intersection' =
                Max2(max_time_in_intersection,
                     CHOOSE d \in durations : \A e \in durations : e <= d)
         /\ min_time_in_intersection' =
                Min2(min_time_in_intersection,
                     CHOOSE d \in durations : \A e \in durations : d <= e)
\* the dwell is measured until the tick that first leaves the vehicle outside the zone
DwellUntilFirstTickOutside == [][DwellFoldedUntil(current_time')]_vars

(* C37: the dwell folded into max_time_in_intersection and min_time_in_intersection for a
   vehicle is the time of the last tick in which its footprint overlapped the zone minus
   the time of the first tick in which it did. The last tick that left the vehicle
   overlapping is the one before the fold, at current_time; the first is the one that made
   its entry in vehicle_intersection_times. *)
C37_DwellLastMinusFirst == [][DwellFoldedUntil(current_time)]_vars

-----------------------------------------------------------------------------
(* Retirement at Fast (SpecRun) *)

\* every vehicle a tick removes was past the zone when the tick began, was commanded Fast
\* in it and, moved, lies outside the canvas and past the zone
RemovedPastAndFast ==
    Ticking =>
        \A i \in RemovedNow :
            /\ is_past_intersection(active_vehicles[i])
            /\ tick_log'[i].is_past_intersection
            /\ tick_log'[i].final_speed = "Fast"
            /\ MovedInStep(i).current_speed = "Fast"
            /\ is_outside_canvas(MovedInStep(i))
            /\ is_past_intersection(MovedInStep(i))
\* once a vehicle has been counted both velocity extremes are 7 px per tick
ExtremesAtFast ==
    IF total_vehicles_passed > 0
    THEN max_velocity_recorded = 7 /\ min_velocity_recorded = 7
    ELSE max_velocity_recorded = 0 /\ min_velocity_recorded = F32_MAX

(* C38: every vehicle is retired at Fast: in the tick that removes a vehicle it is past the
   zone and its commanded speed is Fast, so whenever total_vehicles_passed > 0 both
   max_velocity_recorded and min_velocity_recorded are 7 px per tick. *)
C38_RetiredAtFast == /\ []ExtremesAtFast /\ [][RemovedPastAndFast]_vars
\* both vehicles of a run have been removed, the second by the last tick, and the extremes
\* stand at 7
C38_Witness ==
    /\ total_vehicles_passed = MaxRunVehicles
    /\ active_vehicles = <<>>
    /\ \E k \in 1..Len(tick_log) : tick_log[k].vehicle_id \in Retired
    /\ max_velocity_recorded = 7
    /\ min_velocity_recorded = 7

-----------------------------------------------------------------------------
(* The two turn tables (SpecRun) *)

\* the routes that turn
Turning == {"Left", "Right"}
\* the direction against d
OppositeOf(d) ==
    CASE d = "North" -> "South" [] d = "South" -> "North"
      [] d = "East" -> "West" [] d = "West" -> "East"
\* for every entry direction and turning route the direction execute_turn gives a vehicle
\* is the one calculate_path_from_turn lays segment 2 out for
TurnTablesAgree ==
    \A d \in Direction : \A r \in Turning :
        /\ execute_turn(NewVehicle(1, r, d, get_spawn_position(d, r),
                                   get_turn_position(d, r))).direction = new_direction(d, r)
        /\ new_direction(d, r) \notin {d, OppositeOf(d)}
\* a live vehicle of a turning route travels in its entry direction until it has turned,
\* and from then on in the direction segment 2 of its cached path is laid out for
TravelsAsCached ==
    \A i \in 1..Len(active_vehicles) :
        active_vehicles[i].route \in Turning =>
            active_vehicles[i].direction =
                IF active_vehicles[i].has_turned
                THEN new_direction(EntryDirection(active_vehicles[i]), active_vehicles[i].route)
                ELSE EntryDirection(active_vehicles[i])

(* C39: the table of directions after the turn from which the path cache lays out
   segment 2 and the turn table the movement step applies agree for all 8 pairs of entry
   direction and Left or Right route, so a vehicle that has turned travels in the direction
   segment 2 of its path was laid out for. *)
C39_TurnTablesAgree ==
    /\ (current_time = 0 /\ next_id = 1) => TurnTablesAgree
    /\ TravelsAsCached
\* a vehicle that has turned is crossing the zone in the direction of its segment 2, which
\* is not the one it entered in
C39_Witness ==
    \E i \in 1..Len(active_vehicles) :
        /\ active_vehicles[i].route \in Turning
        /\ active_vehicles[i].has_turned
        /\ is_in_intersection(active_vehicles[i])
        /\ active_vehicles[i].direction
               = new_direction(EntryDirection(active_vehicles[i]), active_vehicles[i].route)
        /\ active_vehicles[i].direction # EntryDirection(active_vehicles[i])

-----------------------------------------------------------------------------
(* Properties of the grid primitives (SpecGrid) *)

InGrid(c) == c[1] < cols /\ c[2] < rows
ListedIndexes(cells) ==
    {c[2] * cols + c[1] : c \in {cells[k] : k \in {j \in 1..Len(cells) : InGrid(cells[j])}}}
TimesListed(cells, idx) ==
    Cardinality({k \in 1..Len(cells) : InGrid(cells[k]) /\ cells[k][2] * cols + cells[k][1] = idx})
InBoundsOnly(cells) == SelectSeq(cells, InGrid)
OfOthers(slots, id) == SelectSeq(slots, LAMBDA sl : sl.vehicle_id # id)
Copies(n, x) == [k \in 1..n |-> x]
Overlaps(start, end, slot) == start < slot.end /\ slot.start < end
Touched(g1, g2, cells) == DOMAIN g1 \cup DOMAIN g2 \cup ListedIndexes(cells)

\* C4: release(cells, agent_id) removes from the listed in-bounds cells exactly the
\* reservations of agent_id, whatever their window, and leaves every other
\* reservation of those cells, and every cell not listed, as it was.
C4_ReleaseRemovesOnlyOwn ==
    [][op'.kind = "release" =>
          \A idx \in Touched(grid, grid', op'.cells) :
              cell_slots(grid', idx) =
                  IF idx \in ListedIndexes(op'.cells)
                  THEN OfOthers(cell_slots(grid, idx), op'.vehicle_id)
                  ELSE cell_slots(grid, idx)]_vars

\* a release that removed a reservation from a listed cell in which another agent's
\* reservation stays
C4_Witness ==
    /\ op.kind = "release"
    /\ op.changed >= 1
    /\ \E idx \in ListedIndexes(op.cells) :
           \E k \in 1..Len(cell_slots(grid, idx)) :
               cell_slots(grid, idx)[k].vehicle_id # op.vehicle_id

\* C7: can_reserve(cells, start, end) is true iff no in-bounds listed cell holds a
\* reservation, of any agent, overlapping [start, end) (start < slot.end and
\* slot.start < end); it leaves the grid as it was.
C7_CanReserveIffFree ==
    /\ [](op.kind = "can_reserve" =>
             (op.result <=>
                  ~\E idx \in ListedIndexes(op.cells) :
                       \E k \in 1..Len(cell_slots(grid, idx)) :
                           Overlaps(op.start, op.end, cell_slots(grid, idx)[k])))
    /\ [][op'.kind = "can_reserve" => grid' = grid]_vars

\* can_reserve refused a window that touches no other window than an overlapping one
\* in a listed cell
C7_Witness ==
    /\ op.kind = "can_reserve"
    /\ ~op.result
    /\ \E idx \in ListedIndexes(op.cells) :
           \E k \in 1..Len(cell_slots(grid, idx)) :
               Overlaps(op.start, op.end, cell_slots(grid, idx)[k])

\* C8: reserve(agent_id, cells, start, end) appends one reservation (start, end,
\* agent_id) to each in-bounds listed cell, whatever the cell holds, and a second
\* call with the same arguments appends the same reservations again.
C8_ReserveAppends ==
    [][/\ op'.kind = "reserve" =>
              \A idx \in Touched(grid, grid', op'.cells) :
                  cell_slots(grid', idx) =
                      cell_slots(grid, idx)
                      \o Copies(TimesListed(op'.cells, idx),
                                [start |-> op'.start, end |-> op'.end,
                                 vehicle_id |-> op'.vehicle_id])
       /\ (op.kind = "reserve" /\ op' = op /\ ListedIndexes(op.cells) # {}) =>
              /\ grid' # grid
              /\ \A idx \in ListedIndexes(op.cells) :
                     LET after == cell_slots(grid', idx)
                         n == TimesListed(op.cells, idx)
                     IN  /\ Len(after) >= 2 * n
                         /\ \A k \in (Len(after) - 2 * n + 1)..Len(after) :
                                after[k] = [start |-> op.start, end |-> op.end,
                                            vehicle_id |-> op.vehicle_id]]_vars

\* a cell that holds the reservation of the last reserve call twice
C8_Witness ==
    /\ op.kind = "reserve"
    /\ \E idx \in ListedIndexes(op.cells) :
           /\ TimesListed(op.cells, idx) = 1
           /\ cell_slots(grid, idx) =
                  Copies(2, [start |-> op.start, end |-> op.end, vehicle_id |-> op.vehicle_id])

\* C9: cells with column >= cols or row >= rows in the list of can_reserve, reserve
\* or release are skipped: the call does what it does on the list without them, and
\* no reservation appears outside the grid.
C9_OutOfBoundsSkipped ==
    /\ [](/\ DOMAIN grid \subseteq CellIndexes
          /\ op.kind = "can_reserve" =>
                 op.result = can_reserve_cells(grid, InBoundsOnly(op.cells), op.start, op.end))
    /\ [][/\ op'.kind = "reserve" =>
                 grid' = reserve_cells_for_vehicle(grid, op'.vehicle_id, InBoundsOnly(op'.cells),
                                                   op'.start, op'.end)
          /\ op'.kind = "release" =>
                 grid' = release_specific_cells(grid, InBoundsOnly(op'.cells), op'.vehicle_id)]_vars

\* a reserve call on a list of an in-bounds and an out-of-bounds cell that added one
\* reservation
C9_Witness ==
    /\ op.kind = "reserve"
    /\ Len(op.cells) = 2
    /\ Len(InBoundsOnly(op.cells)) = 1
    /\ op.changed = 1

====
